---- MODULE Spec2Model ----
(***************************************************************************)
(* The text parsers of the Night Board dashboard (src/src/App.jsx) as      *)
(* operators over strings, and their applications as a state machine.      *)
(*                                                                         *)
(* A string is a sequence of one-character strings, so that every regular  *)
(* expression of the source is modelled by what it matches, character by   *)
(* character.  Glyphs outside ASCII are single characters with a name:     *)
(* "EMDASH", "BULLET", "SQUARE", "CIRCLE", "GREEN", "RED".                 *)
(***************************************************************************)
EXTENDS Integers, Sequences, FiniteSets, TLC

VARIABLES
  now,     \* the calendar year new Date().getFullYear() returns
  gen,     \* the parts the text was put together from
  input,   \* the text handed to the parsers
  fn,      \* the parser applied last, "none" before the first application
  out,     \* what that parser returned
  at       \* the calendar year at that application

vars == <<now, gen, input, fn, out, at>>

(***************************************************************************)
(* Characters and strings                                                  *)
(***************************************************************************)
Null == <<"null">>
EmDash == <<"EMDASH">>

Min(a, b) == IF a <= b THEN a ELSE b
Max(a, b) == IF a >= b THEN a ELSE b

Lowers == <<"a","b","c","d","e","f","g","h","i","j","k","l","m","n","o","p","q","r","s","t","u","v","w","x","y","z">>
Uppers == <<"A","B","C","D","E","F","G","H","I","J","K","L","M","N","O","P","Q","R","S","T","U","V","W","X","Y","Z">>
Digits == <<"0","1","2","3","4","5","6","7","8","9">>

LowerSet == {Lowers[i] : i \in 1..Len(Lowers)}
UpperSet == {Uppers[i] : i \in 1..Len(Uppers)}
DigitSet == {Digits[i] : i \in 1..Len(Digits)}
SpaceSet == {" ", "\t", "\n", "\r"}

IsDigit(c) == c \in DigitSet
IsLetter(c) == c \in LowerSet \/ c \in UpperSet
IsWordChar(c) == IsLetter(c) \/ IsDigit(c) \/ c = "_"
IsSpace(c) == c \in SpaceSet

IndexOf(tbl, c) == CHOOSE i \in 1..Len(tbl) : tbl[i] = c
ToLowerChar(c) == IF c \in UpperSet THEN Lowers[IndexOf(Uppers, c)] ELSE c
ToUpperChar(c) == IF c \in LowerSet THEN Uppers[IndexOf(Lowers, c)] ELSE c
ToLower(s) == [i \in 1..Len(s) |-> ToLowerChar(s[i])]
ToUpper(s) == [i \in 1..Len(s) |-> ToUpperChar(s[i])]

\* s.slice(a - 1, b): the characters a..b, none when a > b
Slice(s, a, b) == IF a > b THEN <<>> ELSE SubSeq(s, a, b)
From(s, a) == Slice(s, a, Len(s))

\* the number of consecutive characters of a class that start at position p
RECURSIVE DigitRun(_, _)
DigitRun(s, p) == IF p <= Len(s) /\ IsDigit(s[p]) THEN 1 + DigitRun(s, p + 1) ELSE 0
RECURSIVE SpaceRun(_, _)
SpaceRun(s, p) == IF p <= Len(s) /\ IsSpace(s[p]) THEN 1 + SpaceRun(s, p + 1) ELSE 0
RECURSIVE LetterRun(_, _)
LetterRun(s, p) == IF p <= Len(s) /\ IsLetter(s[p]) THEN 1 + LetterRun(s, p + 1) ELSE 0

RECURSIVE TrimEnd(_)
TrimEnd(s) ==
  IF Len(s) > 0 /\ IsSpace(s[Len(s)]) THEN TrimEnd(Slice(s, 1, Len(s) - 1)) ELSE s
TrimStart(s) == From(s, SpaceRun(s, 1) + 1)
\* String.prototype.trim
Trim(s) == TrimEnd(TrimStart(s))

OrElse_First(a, b) == a

\* a || b on strings: the empty string is falsy
OrElse(a, b) == IF a # <<>> THEN a ELSE b

\* the literal w stands at position p of s, letter case ignored (flag i)
MatchCI(s, p, w) ==
  /\ p >= 1
  /\ p + Len(w) - 1 <= Len(s)
  /\ \A i \in 1..Len(w) : ToLowerChar(s[p + i - 1]) = ToLowerChar(w[i])

\* variant: every position counts as the end of a word
WordBoundary_Everywhere(s, p) == TRUE

\* \b between positions p and p + 1 (p = 0: before the first character)
WordBoundary(s, p) ==
  LET before == p >= 1 /\ p <= Len(s) /\ IsWordChar(s[p])
      after  == p + 1 >= 1 /\ p + 1 <= Len(s) /\ IsWordChar(s[p + 1])
  IN  before # after

\* text.replace(/\r/g, "")
RemoveCR(t) == SelectSeq(t, LAMBDA c : c # "\r")

\* variant: a split that leaves out the empty piece at the end, so that the
\* empty text has no lines
RECURSIVE SplitLines_NoEmptyEnd(_)
SplitLines_NoEmptyEnd(t) ==
  IF t = <<>> THEN <<>>
  ELSE IF \E i \in 1..Len(t) : t[i] = "\n"
  THEN LET i == CHOOSE k \in 1..Len(t) : t[k] = "\n" /\ \A j \in 1..(k - 1) : t[j] # "\n"
       IN  <<Slice(t, 1, i - 1)>> \o SplitLines_NoEmptyEnd(From(t, i + 1))
  ELSE <<t>>

\* text.split("\n")
RECURSIVE SplitLines(_)
SplitLines(t) ==
  IF \E i \in 1..Len(t) : t[i] = "\n"
  THEN LET i == CHOOSE k \in 1..Len(t) : t[k] = "\n" /\ \A j \in 1..(k - 1) : t[j] # "\n"
       IN  <<Slice(t, 1, i - 1)>> \o SplitLines(From(t, i + 1))
  ELSE <<t>>

\* lines.join("\n")
RECURSIVE JoinLines(_)
JoinLines(ls) ==
  IF Len(ls) = 0 THEN <<>>
  ELSE IF Len(ls) = 1 THEN ls[1]
  ELSE ls[1] \o <<"\n">> \o JoinLines(Tail(ls))

\* parseInt(ds, 10) of a string of digits
RECURSIVE ParseInt(_)
ParseInt(ds) ==
  IF Len(ds) = 0 THEN 0
  ELSE ParseInt(Slice(ds, 1, Len(ds) - 1)) * 10 + (IndexOf(Digits, ds[Len(ds)]) - 1)

\* String(n) of a natural number
RECURSIVE IntToStr(_)
IntToStr(n) ==
  IF n < 10 THEN <<Digits[n + 1]>> ELSE IntToStr(n \div 10) \o <<Digits[(n % 10) + 1]>>

\* s.padStart(2, "0")
PadStart2(s) == IF Len(s) >= 2 THEN s ELSE IF Len(s) = 1 THEN <<"0">> \o s ELSE <<"0","0">>

Sp == <<" ">>

(***************************************************************************)
(* parseDateHeader                                                         *)
(***************************************************************************)
months ==
  << <<<<"j","a","n">>, 0>>, <<<<"j","a","n","u","a","r","y">>, 0>>, <<<<"f","e","b">>, 1>>, <<<<"f","e","b","r","u","a","r","y">>, 1>>,
     <<<<"m","a","r">>, 2>>, <<<<"m","a","r","c","h">>, 2>>, <<<<"a","p","r">>, 3>>, <<<<"a","p","r","i","l">>, 3>>,
     <<<<"m","a","y">>, 4>>, <<<<"j","u","n">>, 5>>, <<<<"j","u","n","e">>, 5>>, <<<<"j","u","l">>, 6>>, <<<<"j","u","l","y">>, 6>>,
     <<<<"a","u","g">>, 7>>, <<<<"a","u","g","u","s","t">>, 7>>, <<<<"s","e","p">>, 8>>, <<<<"s","e","p","t">>, 8>>,
     <<<<"s","e","p","t","e","m","b","e","r">>, 8>>, <<<<"o","c","t">>, 9>>, <<<<"o","c","t","o","b","e","r">>, 9>>,
     <<<<"n","o","v">>, 10>>, <<<<"n","o","v","e","m","b","e","r">>, 10>>, <<<<"d","e","c">>, 11>>, <<<<"d","e","c","e","m","b","e","r">>, 11>> >>

\* months[monName]: the index, -1 for undefined
MonthIndex(monName) ==
  IF \E i \in 1..Len(months) : months[i][1] = monName
  THEN months[CHOOSE i \in 1..Len(months) : months[i][1] = monName][2]
  ELSE -1

\* header.replace(/[^\w\s()/-]/g, "").trim()
HeaderKeep(c) == IsWordChar(c) \/ IsSpace(c) \/ c \in {"(", ")", "/", "-"}
SanitizeHeader(header) == Trim(SelectSeq(header, HeaderKeep))

\* line.match(/^(\d{1,2})\s+([A-Za-z]{3,9})(?:\s+(\d{2,4}))?/)
\* The day is a run of one or two digits (a third digit leaves \s+ nothing
\* to match), the month the first 3..9 letters of the run that follows the
\* white space, the year the first 2..4 digits after further white space.
DateMatch(line) ==
  LET dl  == DigitRun(line, 1)
      ws  == SpaceRun(line, dl + 1)
      lr  == LetterRun(line, dl + ws + 1)
      ml  == Min(lr, 9)
      q   == dl + ws + ml + 1
      ws2 == SpaceRun(line, q)
      yd  == DigitRun(line, q + ws2)
  IN  IF dl \in {1, 2} /\ ws >= 1 /\ lr >= 3
      THEN [ok   |-> TRUE,
            day  |-> Slice(line, 1, dl),
            mon  |-> Slice(line, dl + ws + 1, dl + ws + ml),
            year |-> IF ws2 >= 1 /\ yd >= 2
                     THEN Slice(line, q + ws2, q + ws2 + Min(yd, 4) - 1)
                     ELSE <<>>]
      ELSE [ok |-> FALSE, day |-> <<>>, mon |-> <<>>, year |-> <<>>]

\* lines 430-436: the year of the header, the clock's year when it has none
\* variant: every header is dated in the year of the clock
ResolveYear_ClockOnly(yearTok, clock) == clock

\* variant: yr <= 100 where line 433 has yr < 100
ResolveYear_PivotAt100(yearTok, clock) ==
  IF yearTok # <<>>
  THEN LET yr == ParseInt(yearTok) IN IF yr <= 100 THEN 2000 + yr ELSE yr
  ELSE clock

ResolveYear(yearTok, clock) ==
  IF yearTok # <<>>
  THEN LET yr == ParseInt(yearTok) IN IF yr < 100 THEN 2000 + yr ELSE yr
  ELSE clock

\* lines 437-439
FormatISO(yyyy, mmIndex, dd) ==
  IF mmIndex # -1
  THEN IntToStr(yyyy) \o <<"-">> \o PadStart2(IntToStr(mmIndex + 1)) \o <<"-">>
         \o PadStart2(IntToStr(dd))
  ELSE Null

\* line.replace(/\s+\d{4}$/, "")
StripTrailingYear(line) ==
  LET n == Len(line)
  IN  IF n >= 5 /\ IsSpace(line[n - 4]) /\ \A i \in (n - 3)..n : IsDigit(line[i])
      THEN TrimEnd(Slice(line, 1, n - 4))
      ELSE line

parseDateHeader(header, clock) ==
  LET line == SanitizeHeader(header)
      m    == DateMatch(line)
  IN  IF ~m.ok
      THEN [iso |-> Null, label |-> OrElse(Trim(header), EmDash)]
      ELSE [iso   |-> FormatISO(ResolveYear(m.year, clock),
                                MonthIndex(ToLower(m.mon)), ParseInt(m.day)),
            label |-> OrElse(Trim(StripTrailingYear(line)), Trim(header))]

(***************************************************************************)
(* parseMissionLine                                                        *)
(***************************************************************************)
NoEntry == [type |-> "none", code |-> Null, label |-> <<>>]

\* /^nil$/i
IsNil(s) == ToLower(s) = <<"n","i","l">>

\* /^([FS]\d)/i: the line starts with a unit code
\* variant: [A-Z]\d where the code has [FS]\d
StartsWithCode_AnyLetter(s) == Len(s) >= 2 /\ IsLetter(s[1]) /\ IsDigit(s[2])

StartsWithCode(s) == Len(s) >= 2 /\ ToUpperChar(s[1]) \in {"F", "S"} /\ IsDigit(s[2])

\* \bspare\b at position p, flag i
SpareWordAt(s, p) ==
  MatchCI(s, p, <<"s","p","a","r","e">>) /\ WordBoundary(s, p - 1) /\ WordBoundary(s, p + 4)

\* \s*window at position q, flag i
WindowAt(s, q) == MatchCI(s, q + SpaceRun(s, q), <<"w","i","n","d","o","w">>)

\* /\bspare\b(?!\s*window)/i.test(s)
IsSpareText(s) == \E p \in 1..Len(s) : SpareWordAt(s, p) /\ ~WindowAt(s, p + 5)

\* /\bspare\s*window\b/i.test(s)
HasSpareWindow(s) ==
  \E p \in 1..Len(s) :
    /\ MatchCI(s, p, <<"s","p","a","r","e">>) /\ WordBoundary(s, p - 1)
    /\ WindowAt(s, p + 5)
    /\ WordBoundary(s, p + 10 + SpaceRun(s, p + 5))
    /\ WordBoundary(s, p + 5 + SpaceRun(s, p + 5) + 5)

\* (\d{3,4}\s*-\s*\d{3,4}) matched from position p: the position of its last
\* character, 0 when it does not match there.  The first number is a run of
\* exactly 3 or 4 digits from p (a longer run leaves no "-" after 4 digits),
\* the second the first 3..4 digits of the run after the dash.
TimeEnd(s, p) ==
  LET d1 == DigitRun(s, p)
      b  == p + d1 + SpaceRun(s, p + d1)
      c  == b + 1 + SpaceRun(s, b + 1)
      d2 == DigitRun(s, c)
  IN  IF d1 \in {3, 4} /\ b <= Len(s) /\ s[b] = "-" /\ d2 >= 3
      THEN c + Min(d2, 4) - 1
      ELSE 0

\* t.replace(/\s+/g, "")
\* variant: the time range is kept as written
RemoveSpaces_Keep(t) == t

RemoveSpaces(t) == SelectSeq(t, LAMBDA c : ~IsSpace(c))

\* s.match(/^([FS]\d)\s*[:\-]?\s*(\d{3,4}\s*-\s*\d{3,4})?\s*(.*)$/i) for a
\* line that starts with a unit code: every quantifier takes what it can, and
\* the optional time group is skipped where it does not match
StdMatch(s) ==
  LET p1 == 3 + SpaceRun(s, 3)
      p2 == IF p1 <= Len(s) /\ s[p1] \in {":", "-"} THEN p1 + 1 ELSE p1
      p3 == p2 + SpaceRun(s, p2)
      e  == TimeEnd(s, p3)
  IN  [code |-> Slice(s, 1, 2),
       time |-> IF e = 0 THEN <<>> ELSE Slice(s, p3, e),
       rest |-> IF e = 0 THEN From(s, p3) ELSE From(s, e + 1 + SpaceRun(s, e + 1))]

\* rest.replace(/^spare/i, "")
StripSpare(rest) == IF MatchCI(rest, 1, <<"s","p","a","r","e">>) THEN From(rest, 6) ELSE rest

\* line 486: the label of a spare entry
\* variant: the rest of the line is kept whole, without the word Spare
SpareLabel_Raw(code, rest) == Trim(code \o Sp \o rest)

SpareLabel(code, rest) ==
  Trim(code \o <<" ","S","p","a","r","e">>
         \o (IF StripSpare(rest) # <<>> THEN Sp \o Trim(StripSpare(rest)) ELSE <<>>))

\* line 488: [time, rest].filter(Boolean).join(" ")
MissionText(time, rest) ==
  IF time = <<>> THEN rest ELSE IF rest = <<>> THEN time ELSE time \o Sp \o rest

\* s.match(/^([FS]\d).*?\bspare\b/i)
AsSpareMatch(s) == StartsWithCode(s) /\ \E p \in 3..Len(s) : SpareWordAt(s, p)

parseMissionLine(ln) ==
  LET s == Trim(ln)
  IN  IF s = <<>> \/ IsNil(s) THEN NoEntry
      ELSE IF StartsWithCode(s)
      THEN LET m    == StdMatch(s)
               code == ToUpper(m.code)
               time == RemoveSpaces(m.time)
               rest == Trim(m.rest)
           IN  IF IsSpareText(s) \/ (MatchCI(rest, 1, <<"s","p","a","r","e">>) /\ WordBoundary(rest, 5))
               THEN [type |-> "spare", code |-> code, label |-> SpareLabel(code, rest)]
               ELSE [type |-> "mission", code |-> code,
                     label |-> OrElse(MissionText(time, rest), code)]
      \* lines 492-496: only a line that starts with a unit code matches
      \* mAsSpare, and line 480 has matched all of those
      ELSE IF AsSpareMatch(s) /\ ~HasSpareWindow(s)
      THEN [type |-> "spare", code |-> ToUpper(Slice(s, 1, 2)), label |-> s]
      ELSE IF MatchCI(s, 1, <<"n","i","l">>) /\ MatchCI(s, 4 + SpaceRun(s, 4), <<"s","p","a","r","e">>)
      THEN [type |-> "spare", code |-> Null, label |-> <<"N","i","l"," ","S","p","a","r","e">>]
      ELSE IF (MatchCI(s, 1, <<"B","M","D">>) \/ MatchCI(s, 1, <<"R","S","D">>)) /\ WordBoundary(s, 3)
      THEN [type |-> "mission", code |-> Null, label |-> s]
      ELSE NoEntry

(***************************************************************************)
(* parseHealingLine                                                        *)
(***************************************************************************)
\* timeRe.exec(rhs) from position p on: the leftmost match at or after p,
\* as <<first, last>>, <<0, 0>> when there is none
RECURSIVE NextTime(_, _)
NextTime(rhs, p) ==
  IF p > Len(rhs) THEN <<0, 0>>
  ELSE IF TimeEnd(rhs, p) # 0 THEN <<p, TimeEnd(rhs, p)>>
  ELSE NextTime(rhs, p + 1)

\* variant: the scan stops after the first time range
ScanTimes_FirstOnly(rhs, p, acc) ==
  LET t == NextTime(rhs, p)
  IN  IF t[1] = 0 THEN acc
      ELSE [times |-> Append(acc.times, RemoveSpaces(Slice(rhs, t[1], t[2]))),
            lastIndex |-> t[2]]

\* lines 518-526: the time ranges of rhs and the index after the last one
RECURSIVE ScanTimes(_, _, _)
ScanTimes(rhs, p, acc) ==
  LET t == NextTime(rhs, p)
  IN  IF t[1] = 0 THEN acc
      ELSE ScanTimes(rhs, t[2] + 1,
                     [times |-> Append(acc.times, RemoveSpaces(Slice(rhs, t[1], t[2]))),
                      lastIndex |-> t[2]])

\* s.match(/^([FS]\d)\s*:?\s*(.+)$/i)[2] for a line that starts with a unit
\* code: what follows code, white space, colon and white space, or, when
\* nothing follows, the colon given back; <<>> when the match fails
HealingRhs(s) ==
  LET p1 == 3 + SpaceRun(s, 3)
      p2 == IF p1 <= Len(s) /\ s[p1] = ":" THEN p1 + 1 ELSE p1
      p3 == p2 + SpaceRun(s, p2)
  IN  IF p3 <= Len(s) THEN From(s, p3)
      ELSE IF Len(s) >= 3 THEN From(s, Len(s))
      ELSE <<>>

parseHealingLine(ln) ==
  LET s == Trim(ln)
  IN  IF s = <<>> \/ IsNil(s) THEN <<>>
      ELSE IF ~StartsWithCode(s) \/ HealingRhs(s) = <<>>
      THEN <<[code |-> Null, label |-> s]>>
      ELSE LET code == ToUpper(Slice(s, 1, 2))
               rhs  == Trim(HealingRhs(s))
               scan == ScanTimes(rhs, 1, [times |-> <<>>, lastIndex |-> 0])
               trailing == Trim(From(rhs, scan.lastIndex + 1))
           IN  IF Len(scan.times) = 0 THEN <<[code |-> code, label |-> rhs]>>
               ELSE [k \in 1..Len(scan.times) |->
                      [code |-> code,
                       label |-> IF trailing # <<>> THEN scan.times[k] \o Sp \o trailing
                                 ELSE scan.times[k]]]

(***************************************************************************)
(* parseSection.  Lines are numbered from 1 here, from 0 in the source.    *)
(***************************************************************************)
\* the alternatives of (?:h1|h2|...): of an empty list, the empty pattern
GuardAlternatives(nextHeaders) ==
  IF Len(nextHeaders) = 0 THEN {<<>>}
  ELSE {nextHeaders[k] : k \in 1..Len(nextHeaders)}

\* new RegExp("^\\s*(?:h1|h2|...)\\b", "i").test(s)
GuardTest(s, nextHeaders) ==
  \E h \in GuardAlternatives(nextHeaders) :
    \E k \in 0..SpaceRun(s, 1) :
      MatchCI(s, k + 1, h) /\ WordBoundary(s, k + Len(h))

\* lines 465-470: the index the scan stops at
SectionEnd_Back(lines, i, nextHeaders) == i - 2

RECURSIVE SectionEnd(_, _, _)
SectionEnd(lines, i, nextHeaders) ==
  IF i > Len(lines) THEN i
  ELSE IF Trim(lines[i]) # <<>> /\ GuardTest(Trim(lines[i]), nextHeaders) THEN i
  ELSE SectionEnd(lines, i + 1, nextHeaders)

\* line 471: while (out.length && !out[out.length - 1].trim()) out.pop()
RECURSIVE PopBlank(_)
PopBlank(items) ==
  IF Len(items) > 0 /\ Trim(items[Len(items)]) = <<>>
  THEN PopBlank(Slice(items, 1, Len(items) - 1))
  ELSE items

parseSection(lines, startIdx, nextHeaders) ==
  LET end == SectionEnd(lines, startIdx, nextHeaders)
  IN  [items   |-> PopBlank([k \in 1..(end - startIdx) |-> Trim(lines[startIdx + k - 1])]),
       nextIdx |-> end]

(***************************************************************************)
(* parseRTSDaily                                                           *)
(***************************************************************************)
\* /^rts\s*:/i
H_RTS(s) ==
  MatchCI(s, 1, <<"r","t","s">>) /\ 4 + SpaceRun(s, 4) <= Len(s) /\ s[4 + SpaceRun(s, 4)] = ":"
\* /^healing\b/i
H_HEAL(s) == MatchCI(s, 1, <<"h","e","a","l","i","n","g">>) /\ WordBoundary(s, 7)
\* /^hot\b/i
H_HOT(s) == MatchCI(s, 1, <<"h","o","t">>) /\ WordBoundary(s, 3)
\* /^cold\b/i
H_COLD(s) == MatchCI(s, 1, <<"c","o","l","d">>) /\ WordBoundary(s, 4)
\* /^ops\s*brief\b/i
H_OPS(s) ==
  /\ MatchCI(s, 1, <<"o","p","s">>)
  /\ MatchCI(s, 4 + SpaceRun(s, 4), <<"b","r","i","e","f">>)
  /\ WordBoundary(s, 3 + SpaceRun(s, 4) + 5)
\* /^notes\b/i
H_NOTES(s) == MatchCI(s, 1, <<"n","o","t","e","s">>) /\ WordBoundary(s, 5)

isHeader(s) == H_RTS(s) \/ H_HEAL(s) \/ H_HOT(s) \/ H_COLD(s) \/ H_OPS(s) \/ H_NOTES(s)

AfterHot_WithHealing == <<<<"H","e","a","l","i","n","g">>, <<"C","o","l","d">>, <<"O","p","s"," ","B","r","i","e","f">>, <<"N","o","t","e","s">>>>

AfterRTS  == <<<<"H","e","a","l","i","n","g">>, <<"H","o","t">>, <<"C","o","l","d">>, <<"O","p","s"," ","B","r","i","e","f">>, <<"N","o","t","e","s">>>>
AfterHeal == <<<<"H","o","t">>, <<"C","o","l","d">>, <<"O","p","s"," ","B","r","i","e","f">>, <<"N","o","t","e","s">>>>
AfterHot  == <<<<"C","o","l","d">>, <<"O","p","s"," ","B","r","i","e","f">>, <<"N","o","t","e","s">>>>
AfterCold == <<<<"O","p","s"," ","B","r","i","e","f">>, <<"N","o","t","e","s">>>>
AfterOps  == <<<<"N","o","t","e","s">>>>
AfterNotes == <<>>

\* lines 564-567 and 578-581, for each line in turn
RECURSIVE PushMissions(_, _)
PushMissions(rec, lns) ==
  IF Len(lns) = 0 THEN rec
  ELSE LET m == parseMissionLine(lns[1])
       IN  PushMissions(
             IF m.type = "none" THEN rec
             ELSE IF m.type = "spare" THEN [rec EXCEPT !.spares = Append(@, m)]
             ELSE [rec EXCEPT !.missions = Append(@, m)],
             Tail(lns))

\* line 589
RECURSIVE HealingOf(_)
HealingOf(lns) ==
  IF Len(lns) = 0 THEN <<>> ELSE parseHealingLine(lns[1]) \o HealingOf(Tail(lns))

\* /\S/.test(ln)
HasNonSpace(ln) == \E i \in 1..Len(ln) : ~IsSpace(ln[i])

\* lines 596 and 603
KeepHotCold(ln) == HasNonSpace(ln) /\ ~IsNil(ln)

\* ln.replace(/[,;]/g, ",").trim()
OpsLine(ln) == Trim([i \in 1..Len(ln) |-> IF ln[i] \in {",", ";"} THEN "," ELSE ln[i]])
OpsOf(lns) ==
  LET kept == SelectSeq(lns, HasNonSpace) IN [k \in 1..Len(kept) |-> OpsLine(kept[k])]

\* lines 560-561: the first header line at or after i, Len(lines) + 1 if none
RECURSIVE FirstHeader(_, _)
FirstHeader(lines, j) ==
  IF j <= Len(lines) /\ ~isHeader(Trim(lines[j])) THEN FirstHeader(lines, j + 1) ELSE j

\* lines 563: lines.slice(i, j).map(trim).filter(Boolean)
TrimmedNonEmpty(lns) ==
  SelectSeq([k \in 1..Len(lns) |-> Trim(lns[k])], LAMBDA l : l # <<>>)

\* parseSection with its result handed on: the scan goes on at nextIdx with
\* the record that push(rec, items) gives
Scanned(sec, rec) == [i |-> sec.nextIdx, rec |-> rec]

\* lines 573-622: one pass of the while loop at line i, which gives the
\* index of the next pass and the record so far
DailyIter(lines, i, rec) ==
  LET s == Trim(lines[i])
  IN  IF H_RTS(s)
      THEN LET sec == parseSection(lines, i + 1, AfterRTS)
           IN  Scanned(sec, PushMissions(rec, sec.items))
      ELSE IF H_HEAL(s)
      THEN LET sec == parseSection(lines, i + 1, AfterHeal)
           IN  Scanned(sec, [rec EXCEPT !.healing = @ \o HealingOf(sec.items)])
      ELSE IF H_HOT(s)
      THEN LET sec == parseSection(lines, i + 1, AfterHot)
           IN  Scanned(sec, [rec EXCEPT !.hot = @ \o SelectSeq(sec.items, KeepHotCold)])
      ELSE IF H_COLD(s)
      THEN LET sec == parseSection(lines, i + 1, AfterCold)
           IN  Scanned(sec, [rec EXCEPT !.cold = @ \o SelectSeq(sec.items, KeepHotCold)])
      ELSE IF H_OPS(s)
      THEN LET sec == parseSection(lines, i + 1, AfterOps)
           IN  Scanned(sec, [rec EXCEPT !.ops = @ \o OpsOf(sec.items)])
      ELSE IF H_NOTES(s)
      THEN LET sec == parseSection(lines, i + 1, AfterNotes)
           IN  Scanned(sec, [rec EXCEPT !.notes = @ \o SelectSeq(sec.items, HasNonSpace)])
      ELSE [i |-> i + 1, rec |-> rec]

\* lines 572-623: the main loop from line i on
RECURSIVE DailyLoop(_, _, _)
DailyFrom(lines, st) == DailyLoop(lines, st.i, st.rec)
DailyLoop(lines, i, rec) ==
  IF i > Len(lines) THEN rec ELSE DailyFrom(lines, DailyIter(lines, i, rec))

\* line 537: return null
NoDay == [null |-> TRUE]

parseRTSDaily(text, clock) ==
  LET lines == SplitLines(RemoveCR(text))
      hd    == parseDateHeader(lines[1], clock)
      j     == FirstHeader(lines, 2)
      rec0  == [dateISO |-> hd.iso, dateLabel |-> hd.label, missions |-> <<>>,
                spares |-> <<>>, healing |-> <<>>, hot |-> <<>>, cold |-> <<>>,
                ops |-> <<>>, notes |-> <<>>]
  IN  IF Len(lines) = 0 THEN NoDay
      ELSE DailyLoop(lines, j, PushMissions(rec0, TrimmedNonEmpty(Slice(lines, 2, j - 1))))

(***************************************************************************)
(* splitWeekIntoDays and parseRTSWeek                                      *)
(***************************************************************************)
\* variant: [A-Za-z]{4,9} where line 447 has [A-Za-z]{3,9}
DayRe_FourLetters(s) ==
  LET p  == SpaceRun(s, 1)
      dl == DigitRun(s, p + 1)
      ws == SpaceRun(s, p + dl + 1)
  IN  dl \in {1, 2} /\ ws >= 1 /\ LetterRun(s, p + dl + ws + 1) >= 4

\* dayRe.test(s): /^\s*\d{1,2}\s+[A-Za-z]{3,9}(?:\s+\d{2,4})?\s*(?:\([^)]+\))?/
\* Year and parenthetical are optional and nothing follows them, so the test
\* is decided by the day, the white space and three letters.
DayRe(s) ==
  LET p  == SpaceRun(s, 1)
      dl == DigitRun(s, p + 1)
      ws == SpaceRun(s, p + dl + 1)
  IN  dl \in {1, 2} /\ ws >= 1 /\ LetterRun(s, p + dl + ws + 1) >= 3

\* lines 448-450: the indices of the day-header lines, from index i on
RECURSIVE DayIdxs(_, _)
DayIdxs(lines, i) ==
  IF i > Len(lines) THEN <<>>
  ELSE (IF DayRe(Trim(lines[i])) THEN <<i>> ELSE <<>>) \o DayIdxs(lines, i + 1)

splitWeekIntoDays(text) ==
  LET lines == SplitLines(RemoveCR(text))
      idxs  == DayIdxs(lines, 1)
      chunk(k) == Trim(JoinLines(Slice(lines, idxs[k],
                    IF k + 1 <= Len(idxs) THEN idxs[k + 1] - 1 ELSE Len(lines))))
  IN  SelectSeq([k \in 1..Len(idxs) |-> chunk(k)], LAMBDA c : c # <<>>)

\* the literal w occurs somewhere in s, letter case ignored
ContainsCI(s, w) == \E p \in 1..Len(s) : MatchCI(s, p, w)

\* /(RTS:|Healing|Notes|Hot|Cold|Ops Brief)/i.test(body)
hasAnyHeader(body) ==
  \E w \in {<<"R","T","S",":">>, <<"H","e","a","l","i","n","g">>, <<"N","o","t","e","s">>, <<"H","o","t">>, <<"C","o","l","d">>, <<"O","p","s"," ","B","r","i","e","f">>} : ContainsCI(body, w)

\* line 644: parsed || fallback
DayOrElse(parsed, fallback) == IF parsed = NoDay THEN fallback ELSE parsed

\* lines 632-645, for one block
WeekDay(chunk, clock) ==
  LET lines == SplitLines(chunk)
      hd    == parseDateHeader(lines[1], clock)
      body0 == JoinLines(Tail(lines))
      body  == IF hasAnyHeader(body0) THEN body0 ELSE <<"R","T","S",":","\n">> \o body0
  IN  DayOrElse(parseRTSDaily(hd.label \o <<"\n">> \o body, clock),
                [dateISO |-> hd.iso, dateLabel |-> hd.label, missions |-> <<>>,
              spares |-> <<>>, healing |-> <<>>, hot |-> <<>>, cold |-> <<>>,
              ops |-> <<>>, notes |-> <<>>])

parseRTSWeek(text, clock) ==
  LET blocks == splitWeekIntoDays(text)
  IN  [k \in 1..Len(blocks) |-> WeekDay(blocks[k], clock)]

(***************************************************************************)
(* deriveStatusTag and parseReport                                         *)
(***************************************************************************)
\* \bw\b occurs in s, letter case ignored
ContainsWord(s, w) ==
  \E p \in 1..Len(s) :
    MatchCI(s, p, w) /\ WordBoundary(s, p - 1) /\ WordBoundary(s, p + Len(w) - 1)

\* /\bpost\s*phase\s*rcv\b/i.test(s)
HasPostPhaseRcv(s) ==
  \E p \in 1..Len(s) :
    LET q == p + 4 + SpaceRun(s, p + 4)
        r == q + 5 + SpaceRun(s, q + 5)
    IN  /\ WordBoundary(s, p - 1) /\ MatchCI(s, p, <<"p","o","s","t">>)
        /\ MatchCI(s, q, <<"p","h","a","s","e">>) /\ MatchCI(s, r, <<"r","c","v">>)
        /\ WordBoundary(s, r + 2)

InPhaseTitle_Never(title) == FALSE

\* /(major serv|phase\b)/i.test(title)
InPhaseTitle(title) ==
  \/ ContainsCI(title, <<"m","a","j","o","r"," ","s","e","r","v">>)
  \/ \E p \in 1..Len(title) : MatchCI(title, p, <<"p","h","a","s","e">>) /\ WordBoundary(title, p + 4)

\* parts.join(" ")
RECURSIVE JoinSpace(_)
JoinSpace(parts) ==
  IF Len(parts) = 0 THEN <<>>
  ELSE IF Len(parts) = 1 THEN parts[1]
  ELSE parts[1] \o Sp \o JoinSpace(Tail(parts))

QuoteSet == {"\"", "'", "LDQUO", "RDQUO", "LSQUO", "RSQUO"}

\* allText.replace(/[quotes]/g, "").toLowerCase()
NormalizeStatus(allText) == ToLower(SelectSeq(allText, LAMBDA c : c \notin QuoteSet))

deriveStatusTag(entry) ==
  LET normalized ==
        NormalizeStatus(JoinSpace(<<entry.title, entry.input, entry.etr>> \o entry.notes))
      isAOG == ContainsWord(normalized, <<"a","o","g">>)
      isUS  == ContainsWord(normalized, <<"u","/","s">>) \/ ContainsWord(normalized, <<"u","s">>)
      hasDefectOrGR ==
        \/ ContainsWord(normalized, <<"d","e","f","e","c","t">>)
        \/ ContainsWord(normalized, <<"r","e","c","t">>)
        \/ ContainsWord(normalized, <<"g","r">>)
      inPhase  == InPhaseTitle(entry.title)
      recovery == HasPostPhaseRcv(normalized) \/ ContainsWord(normalized, <<"r","e","c","o","v","e","r","y">>)
  IN  IF isAOG THEN "aog"
      ELSE IF isUS \/ hasDefectOrGR THEN "rectification"
      ELSE IF inPhase THEN "in-phase"
      ELSE IF recovery THEN "recovery"
      ELSE "serviceable"

\* header.exec(line) for /^[>*\s-]*\*?\s*([SF]\d)\s*-\s*(.+)$/i on a trimmed
\* line: the unit code stands right after the run of markers, a dash follows
\* it and something follows the dash.  <<code, tail>>, <<>> without a match.
ReportMarker(c) == c \in {">", "*", "-"} \/ IsSpace(c)
RECURSIVE MarkerRun(_, _)
MarkerRun(s, p) == IF p <= Len(s) /\ ReportMarker(s[p]) THEN 1 + MarkerRun(s, p + 1) ELSE 0

\* variant: no markers are allowed before the unit code
ReportHeader_NoMarkers(line) ==
  LET d == 3 + SpaceRun(line, 3)
      r == d + 1 + SpaceRun(line, d + 1)
  IN  IF /\ StartsWithCode(line)
         /\ d <= Len(line) /\ line[d] = "-"
         /\ r <= Len(line)
      THEN <<Slice(line, 1, 2), From(line, r)>>
      ELSE <<>>

ReportHeader(line) ==
  LET k == MarkerRun(line, 1)
      d == k + 3 + SpaceRun(line, k + 3)
      r == d + 1 + SpaceRun(line, d + 1)
  IN  IF /\ StartsWithCode(From(line, k + 1))
         /\ d <= Len(line) /\ line[d] = "-"
         /\ r <= Len(line)
      THEN <<Slice(line, k + 1, k + 2), From(line, r)>>
      ELSE <<>>

\* /^Name:\s*(.+)$/i.exec(line)[1] for the field Name:, <<>> without a match
FieldValue(line, name) ==
  LET r == Len(name) + 1 + SpaceRun(line, Len(name) + 1)
  IN  IF MatchCI(line, 1, name) /\ r <= Len(line) THEN From(line, r) ELSE <<>>

\* entries[code] = value
MapPut(map, key, value) ==
  [k \in (DOMAIN map) \cup {key} |-> IF k = key THEN value ELSE map[k]]
EmptyMap == [k \in {} |-> <<>>]

RECURSIVE DashRun(_, _)
DashRun(s, p) == IF p <= Len(s) /\ s[p] = "-" THEN 1 + DashRun(s, p + 1) ELSE 0

\* lines 173-218 for one trimmed line; st = [entries, current]
ReportLine(st, line) ==
  LET h == ReportHeader(line)
      cur == st.current
      e == st.entries[cur]
      put(v) == [st EXCEPT !.entries = MapPut(st.entries, cur, v)]
  IN  IF line = <<>> THEN st
      ELSE IF h # <<>>
      THEN LET code == ToUpper(h[1])
           IN  [entries |-> MapPut(st.entries, code,
                              [code |-> code, title |-> code \o <<" ","-"," ">> \o Trim(h[2]),
                               input |-> <<>>, etr |-> <<>>, notes |-> <<>>]),
                current |-> code]
      ELSE IF cur = Null THEN st
      ELSE IF FieldValue(line, <<"I","n","p","u","t",":">>) # <<>>
      THEN put([e EXCEPT !.input = Trim(FieldValue(line, <<"I","n","p","u","t",":">>))])
      ELSE IF FieldValue(line, <<"E","T","R",":">>) # <<>>
      THEN put([e EXCEPT !.etr = Trim(FieldValue(line, <<"E","T","R",":">>))])
      ELSE IF line[1] = ">"
      THEN put([e EXCEPT !.notes = Append(@, From(line, 2 + SpaceRun(line, 2)))])
      ELSE IF line[1] = "-"
      THEN put([e EXCEPT !.notes =
                  Append(@, From(line, DashRun(line, 1) + 1
                                         + SpaceRun(line, DashRun(line, 1) + 1)))])
      ELSE IF ToLower(line) = <<"r","e","q","u","i","r","e","m","e","n","t","s">>
      THEN put([e EXCEPT !.notes = Append(@, <<"R","e","q","u","i","r","e","m","e","n","t","s",":">>)])
      ELSE st

RECURSIVE ReportLines(_, _)
ReportLines(st, lines) ==
  IF Len(lines) = 0 THEN st
  ELSE ReportLines(ReportLine(st, Trim(lines[1])), Tail(lines))

\* /^ETR\s*:/i.test(n)
IsEtrNote(n) ==
  MatchCI(n, 1, <<"E","T","R">>) /\ 4 + SpaceRun(n, 4) <= Len(n) /\ n[4 + SpaceRun(n, 4)] = ":"

\* lines 223-226: the ETR of an entry that has none, from its first ETR note
PromoteEtr(e) ==
  IF e.etr = <<>> /\ \E k \in 1..Len(e.notes) : IsEtrNote(e.notes[k])
  THEN LET k == CHOOSE i \in 1..Len(e.notes) :
                  IsEtrNote(e.notes[i]) /\ \A j \in 1..(i - 1) : ~IsEtrNote(e.notes[j])
           c == 4 + SpaceRun(e.notes[k], 4)
       IN  [e EXCEPT !.etr = Trim(From(e.notes[k], c + 1))]
  ELSE e

\* lines 221-228
TaggedEntries(entries) ==
  [c \in DOMAIN entries |->
    LET e == PromoteEtr(entries[c])
    IN  [code |-> e.code, title |-> e.title, input |-> e.input, etr |-> e.etr,
         notes |-> e.notes, tag |-> deriveStatusTag(e)]]

parseReport(text) ==
  TaggedEntries(ReportLines([entries |-> EmptyMap, current |-> Null],
                            SplitLines(RemoveCR(text))).entries)

(***************************************************************************)
(* parseHOTO                                                               *)
(***************************************************************************)
MatchWords_FirstOnly(s, p, ws) == Len(ws) = 0 \/ MatchCI(s, p, ws[1])

\* the literals of ws follow one another from position p of s, separated by
\* \s*, letter case ignored
RECURSIVE MatchWords(_, _, _)
MatchWords(s, p, ws) ==
  IF Len(ws) = 0 THEN TRUE
  ELSE /\ MatchCI(s, p, ws[1])
       /\ MatchWords(s, p + Len(ws[1]) + SpaceRun(s, p + Len(ws[1])), Tail(ws))

\* /^([glyphs])\s/.test(s) || /^GREEN|^RED/.test(s)
isMajorHeader(s) ==
  \/ Len(s) >= 2 /\ s[1] \in {"BULLET", "SQUARE", "CIRCLE"} /\ IsSpace(s[2])
  \/ Len(s) >= 1 /\ s[1] \in {"GREEN", "RED"}

\* lines 341-355, in the order of the source: the section a header line
\* selects, "" when it matches none of the patterns
SectionOf(line) ==
  IF \E p \in 1..Len(line) : MatchWords(line, p, <<<<"GREEN">>, <<"J","o","b"," ","C","o","m","p","l","e","t","e","d">>>>)
    THEN "completed"
  ELSE IF \E p \in 1..Len(line) : MatchWords(line, p, <<<<"RED">>, <<"O","u","t","s","t","a","n","d","i","n","g">>>>)
    THEN "outstanding"
  ELSE IF MatchWords(line, 1, <<<<"BULLET">>, <<"1","4","D">>, <<"S","E","R","V">>, <<"P","R","O","J","E","C","T","I","O","N">>>>) THEN "proj14"
  ELSE IF MatchWords(line, 1, <<<<"BULLET">>, <<"2","8","D">>, <<"S","E","R","V">>, <<"P","R","O","J","E","C","T","I","O","N">>>>) THEN "proj28"
  ELSE IF MatchWords(line, 1, <<<<"BULLET">>, <<"5","6","D">>, <<"S","E","R","V">>, <<"P","R","O","J","E","C","T","I","O","N">>>>) THEN "proj56"
  ELSE IF \E w \in {<<"1","1","2","D","/","1","5","0","H","r","l","y">>, <<"1","1","2","D","/","1","5","0","H","r","y">>, <<"1","1","2","D","/","1","5","0","r","l","y">>, <<"1","1","2","D","/","1","5","0","r","y">>} :
            MatchWords(line, 1, <<<<"BULLET">>, w, <<"P","R","O","J","E","C","T","I","O","N">>>>)
    THEN "proj112150"
  ELSE IF MatchWords(line, 1, <<<<"BULLET">>, <<"1","1","2","D">>, <<"S","E","R","V">>, <<"P","R","O","J","E","C","T","I","O","N">>>>) THEN "proj112"
  ELSE IF MatchWords(line, 1, <<<<"BULLET">>, <<"1","8","0","D">>, <<"S","E","R","V">>, <<"P","R","O","J","E","C","T","I","O","N">>>>) THEN "proj180"
  ELSE IF MatchWords(line, 1, <<<<"SQUARE">>, <<"M","E","E">>>>) THEN "mee"
  ELSE IF MatchWords(line, 1, <<<<"SQUARE">>, <<"E","O","S","S">>, <<"S","t","a","t","u","s">>>>) THEN "eoss"
  ELSE IF MatchWords(line, 1, <<<<"SQUARE">>, <<"B","R","U">>, <<"S","t","a","t","u","s">>>>) THEN "bru"
  ELSE IF MatchWords(line, 1, <<<<"SQUARE">>, <<"P","r","o","b","e">>, <<"S","t","a","t","u","s">>>>) THEN "probe"
  ELSE IF MatchWords(line, 1, <<<<"CIRCLE">>, <<"A","O","M">>>>) THEN "aom"
  ELSE IF MatchWords(line, 1, <<<<"CIRCLE">>, <<"L","e","s","s","o","n"," ","l","e","a","r","n","t">>>>) THEN "lessons"
  ELSE ""

ExtraSections ==
  {"proj14", "proj28", "proj56", "proj112", "proj112150", "proj180",
   "mee", "eoss", "bru", "probe", "aom", "lessons"}

\* mCode[2] of /^([FS]\d)(?:\s*\(([^)]+)\))?.*$/i for a line that starts with
\* a unit code: the parenthetical right after the code, <<>> if there is none
RECURSIVE NotParenRun(_, _)
NotParenRun(s, p) == IF p <= Len(s) /\ s[p] # ")" THEN 1 + NotParenRun(s, p + 1) ELSE 0

CodeTag(line) ==
  LET o == 3 + SpaceRun(line, 3)
      n == NotParenRun(line, o + 1)
  IN  IF o <= Len(line) /\ line[o] = "(" /\ n >= 1 /\ o + n + 1 <= Len(line)
      THEN Slice(line, o + 1, o + n)
      ELSE <<>>

StripDashBullet_Keep(line) == line

\* line.replace(/^[-BULLET]\s*/, "")
StripDashBullet(line) ==
  IF Len(line) >= 1 /\ line[1] \in {"-", "BULLET"}
  THEN From(line, 2 + SpaceRun(line, 2)) ELSE line

\* clean.replace(/^>\s*/, r)
ReplaceQuoteMark(clean, r) ==
  IF Len(clean) >= 1 /\ clean[1] = ">"
  THEN r \o From(clean, 2 + SpaceRun(clean, 2)) ELSE clean

\* lines 383-384 and 389-390: an item pushed to the group of the current code
PushItem(st, item) ==
  IF st.section = "completed"
  THEN [st EXCEPT !.completed =
          MapPut(@, st.currentCode, Append(st.completed[st.currentCode], item))]
  ELSE [st EXCEPT !.outstanding =
          MapPut(@, st.currentCode,
                 [st.outstanding[st.currentCode] EXCEPT !.items = Append(@, item)])]

startSection_Forget(st, line) ==
  [st EXCEPT !.section = SectionOf(line), !.currentCode = Null]

startSection_KeepCode(st, line) ==
  IF SectionOf(line) = "" THEN st ELSE [st EXCEPT !.section = SectionOf(line)]

\* lines 340-356: a header line selects its section, and the headers of the
\* completed and the outstanding jobs forget the current unit code
startSection(st, line) ==
  LET sec == SectionOf(line)
  IN  IF sec = "" THEN st
      ELSE IF sec \in {"completed", "outstanding"}
      THEN [st EXCEPT !.section = sec, !.currentCode = Null]
      ELSE [st EXCEPT !.section = sec]

\* lines 359-396 for one trimmed line
HotoLine(st, line) ==
  IF line = <<>> THEN st
  ELSE IF isMajorHeader(line) THEN startSection(st, line)
  ELSE IF st.section \in {"completed", "outstanding"}
  THEN IF StartsWithCode(line)
       THEN LET code == ToUpper(Slice(line, 1, 2))
            IN  IF st.section = "completed"
                THEN [st EXCEPT !.currentCode = code,
                                !.completed = IF code \in DOMAIN @ THEN @
                                              ELSE MapPut(@, code, <<>>)]
                ELSE LET old == IF code \in DOMAIN st.outstanding
                                THEN st.outstanding[code]
                                ELSE [tag |-> <<>>, items |-> <<>>]
                     IN  [st EXCEPT !.currentCode = code,
                                    !.outstanding =
                                      MapPut(@, code,
                                        [old EXCEPT !.tag =
                                           OrElse(Trim(CodeTag(line)), old.tag)])]
       ELSE IF st.currentCode = Null THEN st
       ELSE IF line[1] \in {"-", "BULLET", ">"}
       THEN PushItem(st, ReplaceQuoteMark(Trim(StripDashBullet(line)), <<">"," ">>))
       ELSE PushItem(st, line)
  ELSE IF st.section \in ExtraSections
  THEN [st EXCEPT !.extra[st.section] =
          Append(@, Trim(ReplaceQuoteMark(StripDashBullet(line), <<>>)))]
  ELSE st

RECURSIVE HotoLines(_, _)
HotoLines(st, lines) ==
  IF Len(lines) = 0 THEN st
  ELSE HotoLines(HotoLine(st, Trim(lines[1])), Tail(lines))

parseHOTO(text) ==
  LET st == HotoLines([completed |-> EmptyMap, outstanding |-> EmptyMap,
                       extra |-> [s \in ExtraSections |-> <<>>],
                       section |-> "", currentCode |-> Null],
                      SplitLines(RemoveCR(text)))
  IN  [completed |-> st.completed, outstanding |-> st.outstanding, extra |-> st.extra]

(***************************************************************************)
(* parseTelegramDefects (lines 257-274: the blocks of each record)         *)
(***************************************************************************)
RECURSIVE NewlineRun(_, _)
NewlineRun(s, p) == IF p <= Len(s) /\ s[p] = "\n" THEN 1 + NewlineRun(s, p + 1) ELSE 0

\* text.split(/\n{2,}/)
RECURSIVE SplitBlocks(_, _)
SplitBlocks(t, p) ==
  IF \E q \in p..Len(t) : NewlineRun(t, q) >= 2
  THEN LET q == CHOOSE k \in p..Len(t) :
                  NewlineRun(t, k) >= 2 /\ \A j \in p..(k - 1) : NewlineRun(t, j) < 2
       IN  <<Slice(t, 1, q - 1)>> \o SplitBlocks(From(t, q + NewlineRun(t, q)), 1)
  ELSE <<t>>

\* b.match(/^\s*([FS]\d)\s*$/im)[1]: the first line of the block that is a
\* bare unit code, <<>> if no line is
BlockCode(b) ==
  LET ls == SplitLines(b)
      bare(l) == Len(Trim(l)) = 2 /\ StartsWithCode(Trim(l))
  IN  IF \E k \in 1..Len(ls) : bare(ls[k])
      THEN Trim(ls[CHOOSE k \in 1..Len(ls) : bare(ls[k]) /\ \A j \in 1..(k - 1) : ~bare(ls[j])])
      ELSE <<>>

\* lines 266-273 for one block; st = [byCode, current], and current has
\* the code Null before the first record starts
TelegramBlock(st, b) ==
  LET pushed == IF st.current.code = Null THEN st.byCode
                ELSE MapPut(st.byCode, st.current.code, st.current)
      st1 == IF BlockCode(b) # <<>>
             THEN [byCode |-> pushed,
                   current |-> [code |-> ToUpper(BlockCode(b)), lines |-> <<>>]]
             ELSE st
  IN  IF st1.current.code = Null THEN st1
      ELSE [st1 EXCEPT !.current.lines = Append(@, b)]

RECURSIVE TelegramBlocks(_, _)
TelegramBlocks(st, blocks) ==
  IF Len(blocks) = 0 THEN st
  ELSE TelegramBlocks(TelegramBlock(st, blocks[1]), Tail(blocks))

\* lines 258-262
TelegramSplit(text) ==
  LET raw == SplitBlocks(RemoveCR(text), 1)
  IN  SelectSeq([k \in 1..Len(raw) |-> Trim(raw[k])], LAMBDA b : b # <<>>)

parseTelegramDefects(text) ==
  LET st == TelegramBlocks([byCode |-> EmptyMap,
                            current |-> [code |-> Null, lines |-> <<>>]],
                           TelegramSplit(text))
  IN  IF st.current.code = Null THEN st.byCode
      ELSE MapPut(st.byCode, st.current.code, st.current)

\* blocks.join("\n\n")
RECURSIVE JoinBlocks(_)
JoinBlocks(bs) ==
  IF Len(bs) = 0 THEN <<>>
  ELSE IF Len(bs) = 1 THEN bs[1]
  ELSE bs[1] \o <<"\n","\n">> \o JoinBlocks(Tail(bs))

\* parseTelegramDefects, lines 276-309: the fields of a record.  all is
\* rec.lines.join("\n\n").
MinOf(S) == CHOOSE p \in S : \A q \in S : p <= q

\* the characters from position p up to the end of the line
RECURSIVE LineRun(_, _)
LineRun(s, p) == IF p <= Len(s) /\ s[p] # "\n" THEN 1 + LineRun(s, p + 1) ELSE 0

\* \s*([^\n]+) at position e: the white space is passed and the capture
\* runs to the end of the line; where only white space is left before the
\* end of the text, any of it that is not a newline is the capture
ValueOk(all, e) ==
  \/ e + SpaceRun(all, e) <= Len(all)
  \/ \E k \in e..Len(all) : all[k] # "\n"
ValueAt(all, e) ==
  IF e + SpaceRun(all, e) <= Len(all)
  THEN Trim(Slice(all, e + SpaceRun(all, e),
                  e + SpaceRun(all, e) + LineRun(all, e + SpaceRun(all, e)) - 1))
  ELSE <<>>

\* get(/\bLABEL\s*([^\n]+)/i)
GetLabelled(all, label) ==
  LET S == {p \in 1..Len(all) : /\ MatchCI(all, p, label) /\ WordBoundary(all, p - 1)
                                /\ ValueOk(all, p + Len(label))}
  IN  IF S = {} THEN <<>> ELSE ValueAt(all, MinOf(S) + Len(label))

\* /Date\/Time\s*[quote]?U\/S[quote]?\s*:/i at position p: the position
\* after the colon, 0 if there is no match at p
UsLabelEnd(all, p) ==
  LET a == p + 9 + SpaceRun(all, p + 9)
      b == IF a <= Len(all) /\ all[a] \in {"LSQUO", "'", "\""} THEN a + 1 ELSE a
      c == IF b + 3 <= Len(all) /\ all[b + 3] \in {"RSQUO", "'", "\""} THEN b + 4 ELSE b + 3
      d == c + SpaceRun(all, c)
  IN  IF /\ MatchCI(all, p, <<"D","a","t","e","/","T","i","m","e">>) /\ MatchCI(all, b, <<"U","/","S">>)
         /\ d <= Len(all) /\ all[d] = ":"
      THEN d + 1 ELSE 0
GetUs(all) ==
  LET S == {p \in 1..Len(all) : UsLabelEnd(all, p) # 0 /\ ValueOk(all, UsLabelEnd(all, p))}
  IN  IF S = {} THEN <<>> ELSE ValueAt(all, UsLabelEnd(all, MinOf(S)))

\* the lazy capture ([\s\S]*?) from position start up to the first of the
\* positions ends or to the end of the text
LazyUpTo(all, start, ends) ==
  Slice(all, start, MinOf({q \in start..(Len(all) + 1) : q = Len(all) + 1 \/ q \in ends}) - 1)

\* get(/\bDefect:\s*([\s\S]*?)(?:\n{1,2}[A-Z][a-z]+:|\n{2,}|$)/i)
GetDefect(all) ==
  LET S == {p \in 1..Len(all) : MatchCI(all, p, <<"D","e","f","e","c","t",":">>) /\ WordBoundary(all, p - 1)}
      e == MinOf(S) + 7
      labelAt(r) == /\ LetterRun(all, r) >= 2
                    /\ r + LetterRun(all, r) <= Len(all)
                    /\ all[r + LetterRun(all, r)] = ":"
      ends == {q \in 1..Len(all) : /\ all[q] = "\n"
                                    /\ \/ NewlineRun(all, q) >= 2
                                       \/ labelAt(q + 1)}
  IN  IF S = {} THEN <<>>
      ELSE Trim(LazyUpTo(all, e + SpaceRun(all, e), ends))

\* /(^|\n)\s*Recovery\s*$/i.test(all) || /post\s*phase\s*rcv/i.test(all)
IsRecovery(all) ==
  \/ \E r \in 1..Len(all) :
       /\ MatchCI(all, r, <<"R","e","c","o","v","e","r","y">>)
       /\ r + 8 + SpaceRun(all, r + 8) = Len(all) + 1
       /\ \/ \A k \in 1..(r - 1) : IsSpace(all[k])
          \/ \E n \in 1..(r - 1) :
               all[n] = "\n" /\ \A k \in (n + 1)..(r - 1) : IsSpace(all[k])
  \/ \E p \in 1..Len(all) : MatchWords(all, p, <<<<"p","o","s","t">>, <<"p","h","a","s","e">>, <<"r","c","v">>>>)

\* l.replace(/^\s*[-BULLET]\s*/, "").trim()
RequirementLine(l) ==
  LET p == 1 + SpaceRun(l, 1)
  IN  IF p <= Len(l) /\ l[p] \in {"-", "BULLET"}
      THEN Trim(From(l, p + 1 + SpaceRun(l, p + 1))) ELSE Trim(l)
RequirementLines(captured) ==
  SelectSeq([k \in 1..Len(SplitLines(captured)) |-> RequirementLine(SplitLines(captured)[k])],
            LAMBDA l : l # <<>>)

GrLabelLen(all, p) ==
  IF MatchCI(all, p, <<"G","/","r","u","n"," ","r","e","q","u","i","r","e","m","e","n","t",":">>) THEN 18
  ELSE IF MatchCI(all, p, <<"G","r","u","n"," ","r","e","q","u","i","r","e","m","e","n","t",":">>) THEN 17 ELSE 0

\* lines 288-294: G\/?run requirement:\s*([\s\S]*?)(?:\n{2,}|FCF requirement:|Workcenter:|$)
GetGr(all) ==
  LET S == {p \in 1..Len(all) : GrLabelLen(all, p) # 0}
      e == MinOf(S) + GrLabelLen(all, MinOf(S))
      ends == {q \in 1..Len(all) : \/ NewlineRun(all, q) >= 2
                                    \/ MatchCI(all, q, <<"F","C","F"," ","r","e","q","u","i","r","e","m","e","n","t",":">>)
                                    \/ MatchCI(all, q, <<"W","o","r","k","c","e","n","t","e","r",":">>)}
  IN  IF S = {} THEN <<>>
      ELSE RequirementLines(LazyUpTo(all, e + SpaceRun(all, e), ends))

\* lines 296-302: FCF requirement:\s*([\s\S]*?)(?:\n{2,}|G\/?run requirement:|Workcenter:|$)
GetFcf(all) ==
  LET S == {p \in 1..Len(all) : MatchCI(all, p, <<"F","C","F"," ","r","e","q","u","i","r","e","m","e","n","t",":">>)}
      e == MinOf(S) + 16
      ends == {q \in 1..Len(all) : \/ NewlineRun(all, q) >= 2
                                    \/ GrLabelLen(all, q) # 0
                                    \/ MatchCI(all, q, <<"W","o","r","k","c","e","n","t","e","r",":">>)}
  IN  IF S = {} THEN <<>>
      ELSE RequirementLines(LazyUpTo(all, e + SpaceRun(all, e), ends))

\* lines 276-309 for one record, without workcenter, prime and system
TelegramFields(rec) ==
  [code |-> rec.code, lines |-> rec.lines,
   us |-> GetUs(JoinBlocks(rec.lines)),
   defect |-> GetDefect(JoinBlocks(rec.lines)),
   rect |-> GetLabelled(JoinBlocks(rec.lines), <<"R","e","c","t",":">>),
   etr |-> GetLabelled(JoinBlocks(rec.lines), <<"E","T","R",":">>),
   recovery |-> IsRecovery(JoinBlocks(rec.lines)),
   gr |-> GetGr(JoinBlocks(rec.lines)),
   fcf |-> GetFcf(JoinBlocks(rec.lines))]

(***************************************************************************)
(* Texts the parsers are applied to.  Every text is put together from      *)
(* parts, and gen keeps the parts, so that a property can say what the     *)
(* text was meant to hold without parsing it again.                        *)
(***************************************************************************)
MaxYearTicks == 1    \* new years the clock passes through
MaxBodyLines == 3    \* lines under the date line of a day
MaxDays == 2         \* days of a week
MaxMapLines == 3     \* lines of a report or a handover, blocks of a defect feed
MaxTimes == 2        \* time ranges of a healing line
MaxNotes == 1        \* notes of a status entry
MaxItems == 3        \* lines under a unit code of a handover
MaxOrphans == 2      \* lines of a handover outside every group
MaxExtraLines == 1   \* lines under a projection or status header of a handover
MaxTagLines == 3     \* lines of an outstanding section with tagged unit codes
MaxSectionLines == 3 \* lines handed to the section scanner
MaxListeners == 3 \* listeners of single documents that are open at a time
MaxDefects == 2 \* records of the Telegram text handed to the generator

\* all sequences over pool of length 0..n
RECURSIVE SeqsUpTo(_, _)
SeqsUpTo(pool, n) ==
  IF n = 0 THEN {<<>>}
  ELSE SeqsUpTo(pool, n - 1)
         \cup {Append(s, x) : s \in {q \in SeqsUpTo(pool, n - 1) : Len(q) = n - 1}, x \in pool}

\* a number <<n, w>> written with at least w digits
NumText(nw) == LET s == IntToStr(nw[1]) IN
  IF Len(s) >= nw[2] THEN s ELSE [i \in 1..(nw[2] - Len(s)) |-> "0"] \o s

\* the parts joined by one space, empty parts left out
RECURSIVE Spaced(_)
Spaced(parts) ==
  IF Len(parts) = 0 THEN <<>>
  ELSE IF parts[1] = <<>> THEN Spaced(Tail(parts))
  ELSE IF Spaced(Tail(parts)) = <<>> THEN parts[1]
  ELSE parts[1] \o Sp \o Spaced(Tail(parts))

\* ---- date headers: day, month, optional year, optional parenthetical.
\* A number is <<value, digits written>>, a month <<name, number>>.
HeaderDays == {<<0, 1>>, <<7, 1>>, <<7, 2>>, <<13, 2>>, <<30, 2>>, <<32, 2>>, <<99, 2>>}
HeaderMonths == {<<<<"A","u","g">>, 8>>, <<<<"a","u","g">>, 8>>, <<<<"S","e","p","t">>, 9>>, <<<<"F","e","b","r","u","a","r","y">>, 2>>, <<<<"F","o","o">>, 0>>}
HeaderYears == {<<>>, <<0, 2>>, <<25, 2>>, <<99, 2>>, <<100, 3>>, <<123, 3>>,
                <<25, 4>>, <<1999, 4>>, <<2025, 4>>}
HeaderParens == {<<>>, <<"(","W","e","d",")">>}

HeaderGens ==
  [kind : {"header"}, day : HeaderDays, mon : HeaderMonths,
   year : HeaderYears, paren : HeaderParens]

HeaderText(g) ==
  Spaced(<<NumText(g.day), g.mon[1],
           IF g.year = <<>> THEN <<>> ELSE NumText(g.year), g.paren>>)

\* ---- schedule lines: code, junk glued to the code, separator, optional
\* time range <<from, gap, to>>, and a rest of three parts.  wrap says how
\* the line is handed over: bare, or as the only line of a day.
LineCodes == {<<"F","3">>, <<"s","5">>}
LineGlued == {<<>>, <<"2">>, <<"x">>}
LineSeps == {<<" ">>, <<":">>, <<" ","-"," ">>}
LineTimes == {<<>>, <<<<"1","1","3","0">>, <<" ">>, <<"2","2","0","0">>>>, <<<<"9","0","0">>, <<>>, <<"1","0","0","0">>>>}
LinePres == {<<>>, <<"G","H","/","I","F">>}
LineSpares == {<<>>, <<"S","p","a","r","e">>, <<"s","p","a","r","e">>, <<"s","p","a","r","e","s">>, <<"s","p","a","r","e"," ","w","i","n","d","o","w">>}
LinePosts == {<<>>, <<"(","E","R","C",")">>}
LineWraps == {"bare", "day"}

LineGens ==
  [kind : {"line"}, code : LineCodes, glued : LineGlued, sep : LineSeps,
   time : LineTimes, pre : LinePres, spare : LineSpares, post : LinePosts,
   wrap : LineWraps]

TimeText(tm) == IF tm = <<>> THEN <<>> ELSE tm[1] \o tm[2] \o <<"-">> \o tm[2] \o tm[3]
RestText(g) == Spaced(<<g.pre, g.spare, g.post>>)
LineText(g) ==
  TrimEnd(g.code \o g.glued \o g.sep
            \o Spaced(<<TimeText(g.time), RestText(g)>>))

\* lines that do not start with a unit code
RawLines ==
  {<<>>, <<"n","i","l">>, <<"N","I","L">>, <<"N","i","l">>, <<"N","i","l"," ","S","p","a","r","e">>, <<"n","i","l"," "," ","s","p","a","r","e"," ","t","o","d","a","y">>, <<"B","M","D"," ","0","9","0","0"," ","b","r","i","e","f">>,
   <<"r","s","d">>, <<"R","S","D","X">>, <<"S","t","a","n","d","b","y"," ","S","3"," ","s","p","a","r","e">>, <<"1","2"," ","p","a","x">>, <<"F"," ","3"," ","1","1","3","0","-","2","2","0","0">>}
RawGens == [kind : {"rawline"}, text : RawLines, wrap : LineWraps]

\* ---- healing lines: code, separator, text before the time ranges, the
\* time ranges <<from, gap, to>> with ", " between them, text after them
HealSeps == {<<" ">>, <<":">>, <<":"," ">>}
HealTimes == {<<<<"1","3","0","0">>, <<" ">>, <<"1","4","0","0">>>>, <<<<"9","0","0">>, <<>>, <<"1","0","0","0">>>>}
HealLeads == {<<>>, <<"F","C","F">>}
HealTails == {<<>>, <<"F","C","F">>, <<"(","E","R","C",")">>}
HealGens ==
  [kind : {"heal"}, code : LineCodes, sep : HealSeps, lead : HealLeads,
   times : SeqsUpTo(HealTimes, MaxTimes), tail : HealTails]

RECURSIVE TimesText(_)
TimesText(ts) ==
  IF Len(ts) = 0 THEN <<>>
  ELSE IF Len(ts) = 1 THEN TimeText(ts[1])
  ELSE TimeText(ts[1]) \o <<","," ">> \o TimesText(Tail(ts))
HealText(g) ==
  TrimEnd(g.code \o g.sep \o Spaced(<<g.lead, TimesText(g.times), g.tail>>))

DayHeader == <<"1","3"," ","A","u","g"," ","2","5"," ","(","W","e","d",")">>
WrapText(wrap, line) == IF wrap = "day" THEN DayHeader \o <<"\n">> \o line ELSE line

\* ---- days: a date line and up to MaxBodyLines lines under it
DailyHeaders == {<<"1","3"," ","A","u","g"," ","2","5"," ","(","W","e","d",")">>, <<"1","5"," ","A","u","g">>}
SectionLines == {<<"R","T","S",":">>, <<"H","e","a","l","i","n","g">>, <<"H","o","t">>, <<"O","p","s"," ","B","r","i","e","f">>, <<"N","o","t","e","s">>}
ContentLines ==
  {<<"F","3"," ","1","1","3","0"," ","-"," ","2","2","0","0"," ","G","H","/","I","F">>, <<"S","3"," ","S","p","a","r","e">>, <<"2"," ","p","a","x",";"," ","k","i","t">>, <<"-"," ","b","r","i","n","g"," ","k","i","t">>, <<>>}
DailyPool == SectionLines \cup ContentLines
DailyGens ==
  [kind : {"daily"}, header : DailyHeaders, body : SeqsUpTo(DailyPool, MaxBodyLines)]
DailyText(g) == JoinLines(<<g.header>> \o g.body)

\* ---- days whose missions stand under the date line without a label, and
\* texts that are no day at all
UnlabelledLines ==
  {<<"F","3"," ","1","1","3","0"," ","-"," ","2","2","0","0"," ","G","H","/","I","F">>, <<"S","3"," ","S","p","a","r","e">>, <<"H","e","a","l","i","n","g">>, <<"O","p","s"," ","B","r","i","e","f">>, <<"O","p","s","B","r","i","e","f">>, <<>>}
UnlabelledGens ==
  [kind : {"daily"}, header : DailyHeaders,
   body : SeqsUpTo(UnlabelledLines, MaxBodyLines)]
\* ---- days whose lines are section headers, in any order, and content
SectionedLines ==
  {<<"R","T","S",":">>, <<"h","e","a","l","i","n","g">>, <<"H","o","t",":">>, <<"C","O","L","D">>, <<"O","p","s"," ","B","r","i","e","f">>, <<"N","o","t","e","s">>,
   <<"F","3"," ","1","1","3","0","-","2","2","0","0"," ","G","H">>, <<"S","1"," ","0","9","0","0","-","1","0","0","0">>, <<"b","r","i","e","f"," ","a","t"," ","0","7","0","0">>}
SectionedGens ==
  [kind : {"sections"}, header : {<<"1","3"," ","A","u","g"," ","2","5"," ","(","W","e","d",")">>},
   body : SeqsUpTo(SectionedLines, MaxBodyLines)]
LooseTexts == {<<>>, <<" ">>, <<"\n">>, <<"\r","\n">>, <<"h","e","l","l","o">>, <<"h","e","l","l","o","\n","w","o","r","l","d">>, <<"\n","N","o","t","e","s">>}
LooseGens == [kind : {"text"}, text : LooseTexts]

\* ---- weeks: lines before the first day, then up to MaxDays days
WeekHeaders == {<<"1","3"," ","A","u","g"," ","2","5"," ","(","W","e","d",")">>, <<"1","4"," ","A","u","g"," ","2","0","2","4">>, <<"1","5"," ","A","u","g">>}
WeekBodies ==
  { <<<<"F","3"," ","1","1","3","0","-","2","2","0","0"," ","G","H">>, <<"S","3"," ","S","p","a","r","e">>>>,
    <<<<"F","2"," ","1","0","0","0","-","1","1","0","0"," ","H","o","t","e","l">>, <<>>>>,
    <<<<"R","T","S",":">>, <<"S","5"," ","S","p","a","r","e"," ","(","E","R","C",")">>, <<"N","o","t","e","s">>, <<"-"," ","b","r","i","n","g"," ","k","i","t">>>> }
WeekPres == {<<>>, <<<<"W","e","e","k"," ","3","3"," ","p","l","a","n">>>>}
WeekDays == [header : WeekHeaders, body : WeekBodies]
WeekGens ==
  [kind : {"week"}, pre : WeekPres,
   days : {d \in SeqsUpTo(WeekDays, MaxDays) : Len(d) >= 1}]
BlockText(d) == JoinLines(<<d.header>> \o d.body)
WeekText(g) ==
  JoinLines(g.pre \o [k \in 1..Len(g.days) |-> BlockText(g.days[k])])

\* ---- status reports, handovers and defect feeds
ReportPool ==
  {<<"*","S","2"," ","-"," ","G","R">>, <<"f","3"," ","-"," ","s">>, <<">"," ","*","F","1","2"," ","-"," ","S">>, <<"X","1"," ","-"," ","U","/","S">>, <<"I","n","p","u","t",":"," ","1"," ","A","u","g">>, <<"-"," ","E","T","R",":"," ","5"," ","A","u","g">>}
ReportGens == [kind : {"report"}, lines : SeqsUpTo(ReportPool, MaxMapLines)]

HotoPool ==
  {<<"GREEN"," ","J","o","b"," ","C","o","m","p","l","e","t","e","d">>, <<"RED"," ","O","u","t","s","t","a","n","d","i","n","g">>, <<"S","1"," ","(","A","O","G",")">>, <<"f","3","0"," ","w","a","s","h"," ","d","o","n","e">>,
   <<"X","2"," ","(","t","a","g",")">>, <<"-"," ","i","t","e","m">>, <<"BULLET"," ","1","4","D"," ","S","E","R","V"," ","P","R","O","J","E","C","T","I","O","N">>}
HotoGens == [kind : {"hoto"}, lines : SeqsUpTo(HotoPool, MaxMapLines)]

\* a handover section with one group: a section header, the line of a unit
\* code and the lines under it
GroupHeads == {<<"GREEN"," ","J","o","b"," ","C","o","m","p","l","e","t","e","d">>, <<"RED"," ","O","u","t","s","t","a","n","d","i","n","g">>}
GroupCodes == {<<"S","1">>, <<"f","2"," ","(","A","O","G",")">>}
DashItems == {<<"-"," ","i","t","e","m">>, <<"-","i","t","e","m"," ","t","w","o">>, <<"-"," "," ","f","i","x"," ","p","u","m","p">>}
BulletItems == {<<"BULLET"," ","g","r","e","a","s","e"," ","h","u","b">>, <<"BULLET","c","h","e","c","k"," ","o","i","l">>}
GroupLines ==
  DashItems \cup BulletItems \cup {<<">"," ","s","e","e"," ","l","o","g">>, <<"w","a","s","h"," ","d","o","n","e">>, <<"S","2"," ","e","n","g","i","n","e"," ","w","a","s","h"," ","d","o","n","e">>}
GroupGens ==
  {[kind |-> "hoto", shape |-> "group", head |-> h, code |-> c, body |-> b,
    lines |-> <<h, c>> \o b] :
     h \in GroupHeads, c \in GroupCodes, b \in SeqsUpTo(GroupLines, MaxItems)}

\* a handover with two sections: lines before the first header, a group of
\* S1, a second header, lines under it before any unit code, and a group of F2
PreLines == {<<"S","1">>, <<"-"," ","e","a","r","l","y">>}
OrphanLines == {<<"-"," ","o","r","p","h","a","n">>, <<"l","a","t","e"," ","t","e","x","t">>}
ResetTails == {<<>>, <<<<"F","2">>, <<"-"," ","t","w","o">>>>}
ResetGens ==
  {[kind |-> "hoto", shape |-> "reset", pre |-> p, head |-> h1, head2 |-> h2,
    orphans |-> o, tail |-> t,
    lines |-> p \o <<h1, <<"S","1">>, <<"-"," ","o","n","e">>, h2>> \o o \o t] :
     p \in SeqsUpTo(PreLines, MaxOrphans), h1 \in GroupHeads, h2 \in GroupHeads,
     o \in SeqsUpTo(OrphanLines, MaxOrphans), t \in ResetTails}

\* a handover with two of the twelve further sections
ExtraHeads ==
  {<<"BULLET"," ","1","4","D"," ","S","E","R","V"," ","P","R","O","J","E","C","T","I","O","N">>, <<"BULLET"," ","2","8","D"," ","S","E","R","V"," ","P","R","O","J","E","C","T","I","O","N">>,
   <<"BULLET"," ","5","6","D"," ","S","E","R","V"," ","P","R","O","J","E","C","T","I","O","N">>, <<"BULLET"," ","1","1","2","D","/","1","5","0","H","r","l","y"," ","P","R","O","J","E","C","T","I","O","N">>,
   <<"BULLET"," ","1","1","2","D"," ","S","E","R","V"," ","P","R","O","J","E","C","T","I","O","N">>, <<"BULLET"," ","1","8","0","D"," ","S","E","R","V"," ","P","R","O","J","E","C","T","I","O","N">>,
   <<"SQUARE"," ","M","E","E">>, <<"SQUARE"," ","E","O","S","S"," ","S","t","a","t","u","s">>, <<"SQUARE"," ","B","R","U"," ","S","t","a","t","u","s">>,
   <<"SQUARE"," ","P","r","o","b","e"," ","S","t","a","t","u","s">>, <<"CIRCLE"," ","A","O","M">>, <<"CIRCLE"," ","L","e","s","s","o","n"," ","l","e","a","r","n","t">>}
ExtraLines == {<<"-"," ","S","1"," ","d","u","e"," ","5"," ","A","u","g">>, <<"F","2"," ","d","u","e">>}
ExtraGens ==
  {[kind |-> "hoto", shape |-> "extra", head |-> h1, body |-> b1, head2 |-> h2,
    body2 |-> b2, lines |-> <<h1>> \o b1 \o <<h2>> \o b2] :
     h1 \in ExtraHeads, h2 \in ExtraHeads,
     b1 \in SeqsUpTo(ExtraLines, MaxExtraLines), b2 \in SeqsUpTo(ExtraLines, MaxExtraLines)}

\* an outstanding section in which unit codes come with and without a tag
TagLines == {<<"S","1">>, <<"S","1"," ","(","A","O","G",")">>, <<"s","1"," ","(","G","R",")">>, <<"F","2"," ","(","t","a","g",")">>, <<"-"," ","i","t","e","m">>}
TagGens ==
  {[kind |-> "hoto", shape |-> "tags", body |-> b, lines |-> <<<<"RED"," ","O","u","t","s","t","a","n","d","i","n","g">>>> \o b] :
     b \in SeqsUpTo(TagLines, MaxTagLines)}

\* a handover in which a line with a header glyph names no known section
UnknownHeads ==
  {<<"BULLET"," ","7","D"," ","S","E","R","V"," ","P","R","O","J","E","C","T","I","O","N">>, <<"SQUARE"," ","T","o","o","l","s">>, <<"CIRCLE"," ","R","e","m","a","r","k","s">>,
   <<"GREEN"," ","D","o","n","e">>, <<"RED","P","e","n","d","i","n","g">>}
UnknownPres == {<<<<"S","1">>, <<"-"," ","b","e","f","o","r","e">>>>, <<<<"-"," ","b","e","f","o","r","e">>>>}
UnknownPosts == {<<<<"-"," ","a","f","t","e","r">>>>, <<<<"a","f","t","e","r"," ","t","e","x","t">>, <<"F","2">>, <<"-"," ","m","o","r","e">>>>}
UnknownGens ==
  {[kind |-> "hoto", shape |-> "unknown", head |-> h, pre |-> p, unknown |-> u,
    post |-> q, lines |-> <<h>> \o p \o <<u>> \o q] :
     h \in GroupHeads \cup {<<"SQUARE"," ","M","E","E">>}, p \in UnknownPres, u \in UnknownHeads,
     q \in UnknownPosts}

\* a handover for the tick boxes: completed jobs, then outstanding ones
TickCompleted == {<<>>, <<<<"S","1">>, <<"-"," ","w","a","s","h">>>>, <<<<"S","1">>, <<"-"," ","w","a","s","h">>, <<"-"," ","w","a","s","h">>>>}
TickOutstanding ==
  {<<<<"S","1">>, <<"-"," ","w","a","s","h">>, <<"-"," ","f","i","x"," ","p","u","m","p">>>>, <<<<"S","1">>, <<"-"," ","w","a","s","h">>, <<"F","2">>, <<"-"," ","w","a","s","h">>>>,
   <<<<"S","1">>, <<"-"," ","w","a","s","h">>, <<"-"," ","w","a","s","h">>>>,
   <<<<"S","1"," ","(","A","O","G",")">>, <<"-"," ","w","a","s","h">>, <<">"," ","s","e","e"," ","l","o","g">>, <<"F","2">>, <<"-"," ","f","i","x"," ","p","u","m","p">>>>}
TickGens ==
  {[kind |-> "hoto", shape |-> "ticks", done |-> c, todo |-> o,
    lines |-> <<<<"GREEN"," ","J","o","b"," ","C","o","m","p","l","e","t","e","d">>>> \o c \o <<<<"RED"," ","O","u","t","s","t","a","n","d","i","n","g">>>> \o o] :
     c \in TickCompleted, o \in TickOutstanding}

\* the collection of reports in the cloud when the component mounts, and the
\* day getTodayISO() gives
ReportIds == {<<"2","0","2","5","-","0","8","-","0","9">>, <<"2","0","2","5","-","0","8","-","1","0">>, <<"2","0","2","5","-","0","9","-","0","1">>, <<"2","0","2","5","-","1","0","-","0","2">>}
CloudGens == [kind : {"cloud"}, docs : SUBSET ReportIds, today : ReportIds]

\* rows of the servicing table: the type, whether the due date parses and
\* the days from today to it, the output date and the approval of a change
ServTypes ==
  {"7D", "14D", "28D", "56A", "56B", "112D", "365D", "365D+A", "365D+B", "Phase A",
   "Phase B", "Whidbey", "730D", "1430D", "30H", "60H", "other"}
ServDays == {-1, 0, 2, 3, 4, 6, 7, 30, 31, 37, 38, 72, 73}
ServGens ==
  [kind : {"serv"}, type : ServTypes, hasDue : BOOLEAN, days : ServDays,
   outputDate : BOOLEAN, approved : BOOLEAN]

\* the inputs of the report generator: the Telegram text of the defects, the
\* field of the serviceable units, the fishing and healing fields and the
\* day of the heading as formatDayHeader words it
DefectBlocks ==
  {<<"F","2","\n","D","a","t","e","/","T","i","m","e"," ","U","/","S",":"," ","1"," ","A","u","g","\n","D","e","f","e","c","t",":"," ","l","e","a","k","\n","R","e","c","t",":"," ","s","e","a","l","\n","E","T","R",":"," ","5"," ","A","u","g">>,
   <<"s","1","\n","D","e","f","e","c","t",":"," ","A","O","G","\n","F","C","F"," ","r","e","q","u","i","r","e","m","e","n","t",":","\n","BULLET"," ","h","o","v","e","r","\n","W","o","r","k","c","e","n","t","e","r",":"," ","A","F">>,
   <<"F","3","\n","D","e","f","e","c","t",":"," ","c","r","a","c","k","\n","G","/","r","u","n"," ","r","e","q","u","i","r","e","m","e","n","t",":","\n","-"," ","F","3"," ","-"," ","c","h","e","c","k">>,
   <<"S","2","\n","D","a","t","e","/","T","i","m","e"," ","'","U","/","S","'"," ",":"," ","2"," ","A","u","g","\n","R","e","c","o","v","e","r","y">>,
   <<"S","3","\n","D","e","f","e","c","t",":"," ","d","e","n","t","\n","S","3"," ","-"," ","d","o","o","r","\n","E","T","R",":"," ","6"," ","A","u","g">>}
SBirdFields == {<<"F","2",","," ","F","3",","," ","S","2",","," ","S","3">>, <<"s","4"," ","S","4",",","S","1","0"," ","x","1">>, <<>>}
FishingFields == {<<>>, <<"F","1"," ","-"," ","n","e","t">>}
GenerateGens ==
  [kind : {"generate"}, blocks : SeqsUpTo(DefectBlocks, MaxDefects),
   sbirds : SBirdFields, fishing : FishingFields, healing : {<<"N","i","l">>},
   day : {<<"9"," ","A","u","g"," ","(","S","a","t",")">>}]

\* a report in which a second header follows the lines of a first one
TwiceHeads == {<<"*","S","2"," ","-"," ","G","R">>, <<"s","2"," ","-"," ","S">>, <<">"," ","F","3"," ","-"," ","U","/","S">>}
TwiceFields ==
  {<<"I","n","p","u","t",":"," ","1"," ","A","u","g">>, <<"E","T","R",":"," ","5"," ","A","u","g">>, <<">"," ","n","o","t","e">>, <<"-"," ","E","T","R",":"," ","6"," ","A","u","g">>, <<"R","e","q","u","i","r","e","m","e","n","t","s">>, <<"p","l","a","i","n">>}
TwiceGens ==
  {[kind |-> "report", shape |-> "twice", head |-> h1, body |-> b1, head2 |-> h2,
    body2 |-> b2, lines |-> <<h1>> \o b1 \o <<h2>> \o b2] :
     h1 \in TwiceHeads, h2 \in TwiceHeads,
     b1 \in SeqsUpTo(TwiceFields, 2), b2 \in SeqsUpTo(TwiceFields, 1)}

\* the arguments of the section scanner: lines, the index of the first line
\* of the section (counted from 1) and the keywords that end it, which are
\* the lists of lines 576-616
SectionPool ==
  {<<"F","3"," ","1","1","3","0"," ","-"," ","2","2","0","0"," ","G","H">>, <<>>, <<" "," ">>, <<" ","-"," ","b","r","i","n","g"," ","k","i","t"," ">>, <<"H","o","t">>, <<"h","o","t","e","l"," ","p","i","c","k","u","p">>, <<"n","o","t","e","s",":"," ","n","o","n","e">>,
   <<"O","p","s"," ","B","r","i","e","f">>}
SectionHeaders ==
  {<<<<"H","e","a","l","i","n","g">>, <<"H","o","t">>, <<"C","o","l","d">>, <<"O","p","s"," ","B","r","i","e","f">>, <<"N","o","t","e","s">>>>,
   <<<<"H","o","t">>, <<"C","o","l","d">>, <<"O","p","s"," ","B","r","i","e","f">>, <<"N","o","t","e","s">>>>,
   <<<<"C","o","l","d">>, <<"O","p","s"," ","B","r","i","e","f">>, <<"N","o","t","e","s">>>>,
   <<<<"O","p","s"," ","B","r","i","e","f">>, <<"N","o","t","e","s">>>>,
   <<<<"N","o","t","e","s">>>>,
   <<>>}
SectionGens ==
  {[kind |-> "section", lines |-> ls, startIdx |-> i, nextHeaders |-> hs] :
     ls \in SeqsUpTo(SectionPool, MaxSectionLines), i \in 1..2, hs \in SectionHeaders}

TelegramPool ==
  {<<"S","1">>, <<" ","f","2"," ">>, <<"S","1","2">>, <<"X","1">>, <<"D","e","f","e","c","t",":"," ","l","e","a","k","\n","R","e","c","t",":"," ","s","e","a","l">>, <<"T","a","i","l","\n","F","3","\n","E","T","R",":"," ","5"," ","A","u","g">>}
TelegramGens == [kind : {"telegram"}, blocks : SeqsUpTo(TelegramPool, MaxMapLines)]

\* status entries: a title, the input and ETR fields, and notes
EntryTitles ==
  {<<"S","2"," ","-"," ","S">>, <<"F","3"," ","-"," ","G","R">>, <<"S","1"," ","-"," ","M","a","j","o","r"," ","S","e","r","v"," ","(","3","6","5","D",")">>, <<"F","2"," ","-"," ","P","h","a","s","e"," ","2">>,
   <<"S","4"," ","-"," ","P","o","s","t"," ","P","h","a","s","e"," ","R","c","v">>, <<"F","5"," ","-"," ","R","e","c","o","v","e","r","y">>, <<"S","6"," ","-"," ","A","O","G">>}
EntryInputs == {<<>>, <<"1"," ","A","u","g">>}
EntryEtrs == {<<>>, <<"5"," ","A","u","g",","," ","d","e","f","e","c","t"," ","o","p","e","n">>}
EntryNotes ==
  {<<"a","w","a","i","t","i","n","g"," ","p","a","r","t","s",","," ","'","A","O","G","'">>, <<"g","e","a","r","b","o","x"," ","U","/","S">>, <<"e","n","g","i","n","e"," ","U","S">>, <<"r","e","c","t"," ","i","n"," ","p","r","o","g","r","e","s","s">>,
   <<"r","e","c","o","v","e","r","y"," ","f","l","i","g","h","t">>, <<"p","h","a","s","e"," ","i","n","s","p","e","c","t","i","o","n"," ","d","u","e">>, <<"o","k">>}
EntryGens ==
  [kind : {"entry"}, title : EntryTitles, input : EntryInputs, etr : EntryEtrs,
   notes : SeqsUpTo(EntryNotes, MaxNotes)]
EntryOf(g) == [title |-> g.title, input |-> g.input, etr |-> g.etr, notes |-> g.notes]

Render(g) ==
  CASE g.kind = "header" -> HeaderText(g)
    [] g.kind = "line" -> WrapText(g.wrap, LineText(g))
    [] g.kind = "rawline" -> WrapText(g.wrap, g.text)
    [] g.kind = "heal" -> HealText(g)
    [] g.kind = "daily" -> DailyText(g)
    [] g.kind = "sections" -> DailyText(g)
    [] g.kind = "text" -> g.text
    [] g.kind = "week" -> WeekText(g)
    [] g.kind = "report" -> JoinLines(g.lines)
    [] g.kind = "hoto" -> JoinLines(g.lines)
    [] g.kind = "telegram" -> JoinBlocks(g.blocks)
    [] g.kind = "section" -> JoinLines(g.lines)
    [] g.kind = "entry" -> JoinSpace(<<g.title, g.input, g.etr>> \o g.notes)
    [] g.kind = "cloud" -> <<>>
    [] g.kind = "generate" -> JoinBlocks(g.blocks)
    [] g.kind = "serv" -> <<>>

(***************************************************************************)
(* The state machine: a text is pasted, parsers are applied to it, and the *)
(* clock may pass into a new year between two applications.                *)
(***************************************************************************)
InitWith(gens) ==
  /\ now = 2025
  /\ gen \in gens
  /\ input = Render(gen)
  /\ fn = "none"
  /\ out = <<>>
  /\ at = now

\* the clock passes into the next year
AdvanceYear ==
  /\ now < 2025 + MaxYearTicks
  /\ now' = now + 1
  /\ UNCHANGED <<gen, input, fn, out, at>>

Apply(name, result) ==
  /\ fn' = name
  /\ out' = result
  /\ at' = now
  /\ UNCHANGED <<now, gen, input>>

ApplyParseDateHeader ==
  /\ gen.kind = "header"
  /\ Apply("parseDateHeader", parseDateHeader(input, now))

ApplyParseMissionLine ==
  /\ gen.kind \in {"line", "rawline"} /\ gen.wrap = "bare"
  /\ Apply("parseMissionLine", parseMissionLine(input))

ApplyParseHealingLine ==
  /\ \/ gen.kind = "heal"
     \/ gen.kind \in {"line", "rawline"} /\ gen.wrap = "bare"
  /\ Apply("parseHealingLine", parseHealingLine(input))

ApplyParseRTSDaily ==
  /\ \/ gen.kind \in {"daily", "sections", "text"}
     \/ gen.kind \in {"line", "rawline"} /\ gen.wrap = "day"
  /\ Apply("parseRTSDaily", parseRTSDaily(input, now))

ApplySplitWeekIntoDays ==
  /\ gen.kind = "week"
  /\ Apply("splitWeekIntoDays", splitWeekIntoDays(input))

ApplyParseRTSWeek ==
  /\ gen.kind = "week"
  /\ Apply("parseRTSWeek", parseRTSWeek(input, now))

ApplyParseReport ==
  /\ gen.kind = "report"
  /\ Apply("parseReport", parseReport(input))

ApplyParseHOTO ==
  /\ gen.kind = "hoto"
  /\ Apply("parseHOTO", parseHOTO(input))

ApplyParseTelegramDefects ==
  /\ gen.kind = "telegram"
  /\ Apply("parseTelegramDefects", parseTelegramDefects(input))

ApplyParseSection ==
  /\ gen.kind = "section"
  /\ Apply("parseSection", parseSection(gen.lines, gen.startIdx, gen.nextHeaders))

ApplyDeriveStatusTag ==
  /\ gen.kind = "entry"
  /\ Apply("deriveStatusTag", deriveStatusTag(EntryOf(gen)))

\* date headers
InitDate == InitWith(HeaderGens)
NextDate == AdvanceYear \/ ApplyParseDateHeader
SpecDate == InitDate /\ [][NextDate]_vars

\* schedule lines, bare and as the only line of a day
InitLine == InitWith(LineGens \cup RawGens)
NextLine == ApplyParseMissionLine \/ ApplyParseHealingLine \/ ApplyParseRTSDaily
SpecLine == InitLine /\ [][NextLine]_vars

\* healing lines
InitHeal == InitWith(HealGens \cup {g \in RawGens : g.wrap = "bare"})
NextHeal == ApplyParseHealingLine
SpecHeal == InitHeal /\ [][NextHeal]_vars

\* days
InitDaily == InitWith(DailyGens)
NextDaily == AdvanceYear \/ ApplyParseRTSDaily
SpecDaily == InitDaily /\ [][NextDaily]_vars

\* days without an RTS: label, and texts that are no day
InitLoose == InitWith(UnlabelledGens \cup LooseGens \cup SectionedGens)
NextLoose == ApplyParseRTSDaily
SpecLoose == InitLoose /\ [][NextLoose]_vars

\* weeks
InitWeek == InitWith(WeekGens)
NextWeek == AdvanceYear \/ ApplySplitWeekIntoDays \/ ApplyParseRTSWeek
SpecWeek == InitWeek /\ [][NextWeek]_vars

\* the split of a week alone
InitSplit == InitWith(WeekGens)
NextSplit == ApplySplitWeekIntoDays
SpecSplit == InitSplit /\ [][NextSplit]_vars

\* the parsers that return maps keyed by unit code
InitMaps == InitWith(ReportGens \cup HotoGens \cup TelegramGens)
NextMaps == ApplyParseReport \/ ApplyParseHOTO \/ ApplyParseTelegramDefects
SpecMaps == InitMaps /\ [][NextMaps]_vars

\* the status tag of an entry
InitTag == InitWith(EntryGens)
NextTag == ApplyDeriveStatusTag
SpecTag == InitTag /\ [][NextTag]_vars

\* parseRTSDaily pass by pass.  out holds the index i of the while loop, the
\* record so far and, for every line, the list its content went to ("" for
\* none, "rts" for missions and spares).
ListOf(s) ==
  IF H_RTS(s) THEN "rts" ELSE IF H_HEAL(s) THEN "healing" ELSE IF H_HOT(s) THEN "hot"
  ELSE IF H_COLD(s) THEN "cold" ELSE IF H_OPS(s) THEN "ops"
  ELSE IF H_NOTES(s) THEN "notes" ELSE ""

\* lines 536-570: up to the while loop
ScanStart ==
  /\ gen.kind \in {"daily", "sections"}
  /\ fn = "none"
  /\ LET lines == SplitLines(RemoveCR(input))
         hd    == parseDateHeader(lines[1], now)
         j     == FirstHeader(lines, 2)
         rec0  == [dateISO |-> hd.iso, dateLabel |-> hd.label, missions |-> <<>>,
                   spares |-> <<>>, healing |-> <<>>, hot |-> <<>>, cold |-> <<>>,
                   ops |-> <<>>, notes |-> <<>>]
     IN  Apply("parseRTSDaily.while",
               [i |-> j,
                rec |-> PushMissions(rec0, TrimmedNonEmpty(Slice(lines, 2, j - 1))),
                owner |-> [k \in 1..Len(lines) |-> IF 2 <= k /\ k < j THEN "rts" ELSE ""]])

\* lines 572-623: one pass of the while loop
ScanPass ==
  /\ fn = "parseRTSDaily.while"
  /\ LET lines == SplitLines(RemoveCR(input))
     IN  /\ out.i <= Len(lines)
         /\ Apply("parseRTSDaily.while",
                  [i |-> DailyIter(lines, out.i, out.rec).i,
                   rec |-> DailyIter(lines, out.i, out.rec).rec,
                   owner |-> [k \in 1..Len(lines) |->
                                IF out.i < k /\ k < DailyIter(lines, out.i, out.rec).i
                                THEN ListOf(Trim(lines[out.i])) ELSE out.owner[k]]])

InitScan == InitWith(SectionedGens \cup UnlabelledGens)
NextScan == ScanStart \/ ScanPass
\* a call of parseRTSDaily runs to its end: weak fairness of NextScan, with
\* the passes that can be taken written out (line 572: while (i < lines.length))
ScanEnabled ==
  \/ fn = "none"
  \/ fn = "parseRTSDaily.while" /\ out.i <= Len(SplitLines(RemoveCR(input)))
SpecScan ==
  InitScan /\ [][NextScan]_vars /\ ([]<>(~ScanEnabled) \/ []<><<NextScan>>_vars)

\* the section scanner
InitSection == InitWith(SectionGens)
NextSection == ApplyParseSection
SpecSection == InitSection /\ [][NextSection]_vars

\* handovers put together from sections and groups
InitHoto == InitWith(GroupGens \cup ResetGens \cup ExtraGens \cup TagGens)
NextHoto == ApplyParseHOTO
SpecHoto == InitHoto /\ [][NextHoto]_vars

\* parseHOTO line by line.  out holds the number k of lines the for loop has
\* taken, the parser's variables st and whether a push found no group.
HotoStart ==
  /\ gen.kind = "hoto"
  /\ fn = "none"
  /\ Apply("parseHOTO.for",
           [k |-> 0,
            st |-> [completed |-> EmptyMap, outstanding |-> EmptyMap,
                    extra |-> [s \in ExtraSections |-> <<>>],
                    section |-> "", currentCode |-> Null],
            threw |-> FALSE])

\* lines 383-384 and 389-390: the push reads the group of the current code,
\* and throws when the map of the section has none
MissingGroup(st, line) ==
  /\ line # <<>>
  /\ ~isMajorHeader(line)
  /\ st.section \in {"completed", "outstanding"}
  /\ ~StartsWithCode(line)
  /\ st.currentCode # Null
  /\ st.currentCode \notin
       DOMAIN (IF st.section = "completed" THEN st.completed ELSE st.outstanding)

\* lines 358-396: one pass of the for loop
HotoStep ==
  /\ fn = "parseHOTO.for"
  /\ ~out.threw
  /\ LET lines == SplitLines(RemoveCR(input))
     IN  /\ out.k < Len(lines)
         /\ Apply("parseHOTO.for",
                  IF MissingGroup(out.st, Trim(lines[out.k + 1]))
                  THEN [out EXCEPT !.k = @ + 1, !.threw = TRUE]
                  ELSE [out EXCEPT !.k = @ + 1,
                                   !.st = HotoLine(@, Trim(lines[out.k + 1]))])

InitHotoFor == InitWith(ResetGens \cup TagGens \cup UnknownGens)
NextHotoFor == HotoStart \/ HotoStep
SpecHotoFor == InitHotoFor /\ [][NextHotoFor]_vars

\* The handover checker of the App component.  out holds the state hotoTicks
\* and hotoDone of the component and the answer to the last confirm().
TickKey(code, text) == code \o <<"|">> \o text
IsTicked(hotoTicks, key) == key \in DOMAIN hotoTicks /\ hotoTicks[key]
Includes(items, item) == \E k \in 1..Len(items) : items[k] = item

\* lines 749-752
toggleTick(hotoTicks, code, text) ==
  MapPut(hotoTicks, TickKey(code, text), ~IsTicked(hotoTicks, TickKey(code, text)))

\* lines 1089-1091
isMoved(hotoDone, code, item) == code \in DOMAIN hotoDone /\ Includes(hotoDone[code], item)

\* Array.from(new Set(items)): the first occurrence of every item
RECURSIVE SetOf(_)
SetOf(items) ==
  IF items = <<>> THEN <<>>
  ELSE LET front == SetOf(SubSeq(items, 1, Len(items) - 1))
       IN  IF Includes(front, items[Len(items)]) THEN front
           ELSE Append(front, items[Len(items)])

StartSet_Empty(hotoDone, code) == <<>>

\* line 1030: new Set(hotoDone[code] || [])
StartSet(hotoDone, code) ==
  IF code \in DOMAIN hotoDone THEN SetOf(hotoDone[code]) ELSE <<>>

\* lines 1027-1036 for the items of one group: updates[code], whether it was
\* made, and the number of items added to it
RECURSIVE UpdatesOf(_, _, _, _)
UpdatesOf(items, code, hotoTicks, hotoDone) ==
  IF items = <<>> THEN [made |-> FALSE, items |-> <<>>, count |-> 0]
  ELSE LET acc  == UpdatesOf(SubSeq(items, 1, Len(items) - 1), code, hotoTicks, hotoDone)
           item == items[Len(items)]
           set  == IF acc.made THEN acc.items ELSE StartSet(hotoDone, code)
       IN  IF ~IsTicked(hotoTicks, TickKey(code, item)) THEN acc
           ELSE IF Includes(set, item) THEN [made |-> TRUE, items |-> set, count |-> acc.count]
           ELSE [made |-> TRUE, items |-> Append(set, item), count |-> acc.count + 1]

\* lines 1021-1062; asked is the answer confirm() gives if it is called
moveTickedToCompleted(hoto, hotoTicks, hotoDone, asked) ==
  LET updates == [code \in DOMAIN hoto.outstanding |->
                    UpdatesOf(hoto.outstanding[code].items, code, hotoTicks, hotoDone)]
      made    == {code \in DOMAIN updates : updates[code].made}
      gone    == UNION {{TickKey(code, updates[code].items[k]) :
                           k \in 1..Len(updates[code].items)} : code \in made}
  IN  IF \A code \in DOMAIN updates : updates[code].count = 0
      THEN [hotoTicks |-> hotoTicks, hotoDone |-> hotoDone, answer |-> "none"]
      ELSE IF ~asked
      THEN [hotoTicks |-> hotoTicks, hotoDone |-> hotoDone, answer |-> "no"]
      ELSE [hotoTicks |-> [key \in (DOMAIN hotoTicks) \ gone |-> hotoTicks[key]],
            hotoDone  |-> [code \in (DOMAIN hotoDone) \cup made |->
                             IF code \in made THEN updates[code].items ELSE hotoDone[code]],
            answer |-> "yes"]

PushNew_All(merged, items) == merged \o items

\* lines 1075-1087
RECURSIVE PushNew(_, _)
PushNew(merged, items) ==
  IF items = <<>> THEN merged
  ELSE IF Includes(merged, items[1]) THEN PushNew(merged, Tail(items))
  ELSE PushNew(Append(merged, items[1]), Tail(items))
completedMerged(hoto, hotoDone) ==
  [code \in (DOMAIN hoto.completed) \cup (DOMAIN hotoDone) |->
     PushNew(IF code \in DOMAIN hoto.completed THEN hoto.completed[code] ELSE <<>>,
             IF code \in DOMAIN hotoDone THEN hotoDone[code] ELSE <<>>)]

\* lines 1921-1923: the items listed under a unit code of Outstanding
RECURSIVE NotMoved(_, _, _)
NotMoved(items, code, hotoDone) ==
  IF items = <<>> THEN <<>>
  ELSE IF isMoved(hotoDone, code, items[1]) THEN NotMoved(Tail(items), code, hotoDone)
  ELSE <<items[1]>> \o NotMoved(Tail(items), code, hotoDone)

\* lines 744-747: the component with a handover text in its text area
MountApp ==
  /\ gen.kind = "hoto"
  /\ fn = "none"
  /\ Apply("App", [hotoTicks |-> EmptyMap, hotoDone |-> EmptyMap, answer |-> "none"])

\* lines 1924-1932: a tick box of a listed item is clicked
ApplyToggleTick ==
  /\ fn \in {"App", "toggleTick", "moveTickedToCompleted"}
  /\ \E code \in DOMAIN parseHOTO(input).outstanding :
       \E k \in 1..Len(parseHOTO(input).outstanding[code].items) :
         /\ ~isMoved(out.hotoDone, code, parseHOTO(input).outstanding[code].items[k])
         /\ Apply("toggleTick",
                  [out EXCEPT !.hotoTicks =
                                toggleTick(@, code, parseHOTO(input).outstanding[code].items[k]),
                              !.answer = "none"])

\* lines 1905-1911: the Done button is clicked
ApplyMoveTickedToCompleted ==
  /\ fn \in {"App", "toggleTick", "moveTickedToCompleted"}
  /\ \E asked \in BOOLEAN :
       Apply("moveTickedToCompleted",
             moveTickedToCompleted(parseHOTO(input), out.hotoTicks, out.hotoDone, asked))

InitTicks == InitWith(TickGens)
NextTicks == MountApp \/ ApplyToggleTick \/ ApplyMoveTickedToCompleted
SpecTicks == InitTicks /\ [][NextTicks]_vars

\* The listeners of the App component.  out holds the state followLatest and
\* selectedDate of the component, the ids of the documents of the collection
\* (docs), whether a snapshot of the collection is due (pending) and the
\* documents with an open listener, the last one being docUnsubRef.current.
IdOrder == <<"-","0","1","2","3","4","5","6","7","8","9">>

\* a.localeCompare(b) < 0 for ids of digits and hyphens
RECURSIVE ComesBefore(_, _)
ComesBefore(a, b) ==
  IF b = <<>> THEN FALSE
  ELSE IF a = <<>> THEN TRUE
  ELSE IF a[1] = b[1] THEN ComesBefore(Tail(a), Tail(b))
  ELSE IndexOf(IdOrder, a[1]) < IndexOf(IdOrder, b[1])

newestId_Oldest(docs) == CHOOSE d \in docs : \A e \in docs : e = d \/ ComesBefore(d, e)

\* lines 838 and 842: docs[0].id after docs.sort((a, b) => b.id.localeCompare(a.id))
newestId(docs) == CHOOSE d \in docs : \A e \in docs : e = d \/ ComesBefore(e, d)

loadCloudDate_NoUnsub(st, date) ==
  IF date = <<>> THEN st
  ELSE [st EXCEPT !.selectedDate = date, !.listeners = Append(@, date)]

\* lines 863-896
loadCloudDate(st, date) ==
  IF date = <<>> THEN st
  ELSE [st EXCEPT !.selectedDate = date,
                  !.listeners = Append(IF @ = <<>> THEN @ ELSE SubSeq(@, 1, Len(@) - 1), date)]

\* lines 824-853: the effect runs again, and the collection is listened to
\* anew, when followLatest or selectedDate has changed
Rendered(old, new) ==
  [new EXCEPT !.pending = old.pending \/ new.followLatest # old.followLatest
                            \/ new.selectedDate # old.selectedDate]

\* lines 826-850: the callback of the listener of the collection
onSnapshot(st) ==
  IF st.docs = {} THEN st
  ELSE IF st.followLatest /\ st.selectedDate # newestId(st.docs)
    THEN loadCloudDate(st, newestId(st.docs))
  ELSE IF st.selectedDate \notin st.docs THEN loadCloudDate(st, newestId(st.docs))
  ELSE st

\* lines 730, 735, 820-821: the component mounts
MountListeners ==
  /\ gen.kind = "cloud"
  /\ fn = "none"
  /\ Apply("App", [followLatest |-> TRUE, selectedDate |-> gen.today, docs |-> gen.docs,
                   pending |-> TRUE, listeners |-> <<>>])

FollowFns == {"App", "onSnapshot", "pickDate", "setFollowLatest", "setDoc", "deleteDoc"}

\* lines 1224-1227 and 1293-1296: a date is picked in the date field (which
\* may be cleared) or in the history list
PickDate ==
  /\ fn \in FollowFns
  /\ Len(out.listeners) < MaxListeners
  /\ \E date \in ReportIds \cup {<<>>} :
       Apply("pickDate", Rendered(out, loadCloudDate([out EXCEPT !.followLatest = FALSE], date)))

\* line 1248: the Follow latest box
SetFollowLatest ==
  /\ fn \in FollowFns
  /\ \E checked \in BOOLEAN :
       Apply("setFollowLatest", Rendered(out, [out EXCEPT !.followLatest = checked]))

\* lines 906 and 940: a document of the collection is written or deleted,
\* by this component or by another one
CloudSetDoc ==
  /\ fn \in FollowFns
  /\ \E id \in ReportIds \ out.docs :
       Apply("setDoc", [out EXCEPT !.docs = @ \cup {id}, !.pending = TRUE])
CloudDeleteDoc ==
  /\ fn \in FollowFns
  /\ \E id \in out.docs :
       Apply("deleteDoc", [out EXCEPT !.docs = @ \ {id}, !.pending = TRUE])

\* lines 826-850: a snapshot of the collection arrives
ApplyOnSnapshot ==
  /\ fn \in FollowFns
  /\ out.pending
  /\ Len(out.listeners) < MaxListeners
  /\ Apply("onSnapshot", Rendered([out EXCEPT !.pending = FALSE],
                                  onSnapshot([out EXCEPT !.pending = FALSE])))

InitFollow == InitWith(CloudGens)
NextFollow ==
  \/ MountListeners
  \/ PickDate
  \/ SetFollowLatest
  \/ CloudSetDoc
  \/ CloudDeleteDoc
  \/ ApplyOnSnapshot
SpecFollow == InitFollow /\ [][NextFollow]_vars

\* The servicing table.  A field SERV_META leaves out is NoField.
NoField == -1
SERV_META ==
  [type \in ServTypes \ {"other"} |->
     CASE type = "7D"  -> [minor |-> TRUE, major |-> FALSE, freqDays |-> 7, windowDays |-> NoField]
       [] type = "14D" -> [minor |-> TRUE, major |-> FALSE, freqDays |-> 14, windowDays |-> NoField]
       [] type = "28D" -> [minor |-> TRUE, major |-> FALSE, freqDays |-> 28, windowDays |-> NoField]
       [] type = "56A" -> [minor |-> TRUE, major |-> FALSE, freqDays |-> 56, windowDays |-> 2]
       [] type = "56B" -> [minor |-> TRUE, major |-> FALSE, freqDays |-> 56, windowDays |-> 4]
       [] type = "112D" -> [minor |-> FALSE, major |-> TRUE, freqDays |-> 112, windowDays |-> NoField]
       [] type = "365D" -> [minor |-> FALSE, major |-> TRUE, freqDays |-> 365, windowDays |-> 30]
       [] type = "365D+A" -> [minor |-> FALSE, major |-> TRUE, freqDays |-> NoField, windowDays |-> 50]
       [] type = "365D+B" -> [minor |-> FALSE, major |-> TRUE, freqDays |-> NoField, windowDays |-> 60]
       [] type = "Phase A" -> [minor |-> FALSE, major |-> TRUE, freqDays |-> NoField, windowDays |-> 40]
       [] type = "Phase B" -> [minor |-> FALSE, major |-> TRUE, freqDays |-> NoField, windowDays |-> 50]
       [] type = "Whidbey" -> [minor |-> FALSE, major |-> TRUE, freqDays |-> NoField, windowDays |-> 20]
       [] type = "730D" -> [minor |-> FALSE, major |-> TRUE, freqDays |-> 730, windowDays |-> NoField]
       [] type = "1430D" -> [minor |-> FALSE, major |-> TRUE, freqDays |-> 1430, windowDays |-> NoField]
       [] OTHER -> [minor |-> FALSE, major |-> FALSE, freqDays |-> NoField, windowDays |-> NoField]]

\* Math.ceil(freqDays * 0.05) for a whole number of days
CeilFivePercent(freqDays) == (freqDays * 5 + 99) \div 100

\* lines 675-681
dueSoonThreshold(type) ==
  LET meta == IF type \in DOMAIN SERV_META THEN SERV_META[type]
              ELSE [minor |-> FALSE, major |-> FALSE, freqDays |-> NoField,
                    windowDays |-> NoField]
  IN  IF meta.windowDays # NoField THEN meta.windowDays
      ELSE IF meta.minor THEN 3
      ELSE IF meta.major /\ meta.freqDays # NoField /\ meta.freqDays # 0
        THEN Max(3, CeilFivePercent(meta.freqDays))
      ELSE 3

\* lines 682-690; row.days is daysFromToday(row.dueDate) where it is not null
servicingStatus(row) ==
  IF row.outputDate THEN "completed"
  ELSE IF ~row.hasDue THEN "scheduled"
  ELSE IF row.approved THEN "approved-change"
  ELSE IF row.days < 0 THEN "overdue"
  ELSE IF row.days <= dueSoonThreshold(row.type) THEN "due-soon"
  ELSE "scheduled"

ApplyDueSoonThreshold ==
  /\ gen.kind = "serv"
  /\ Apply("dueSoonThreshold", dueSoonThreshold(gen.type))
ApplyServicingStatus ==
  /\ gen.kind = "serv"
  /\ Apply("servicingStatus", servicingStatus(gen))

InitServ == InitWith(ServGens)
NextServ == ApplyDueSoonThreshold \/ ApplyServicingStatus
SpecServ == InitServ /\ [][NextServ]_vars

\* The report generator.
\* genSBirds.split(/[,\s]+/)
RECURSIVE SplitCommaSpace(_, _)
SplitCommaSpace(s, cur) ==
  IF s = <<>> THEN <<cur>>
  ELSE IF s[1] = "," \/ IsSpace(s[1])
  THEN IF Len(s) >= 2 /\ (s[2] = "," \/ IsSpace(s[2])) THEN SplitCommaSpace(Tail(s), cur)
       ELSE <<cur>> \o SplitCommaSpace(Tail(s), <<>>)
  ELSE SplitCommaSpace(Tail(s), Append(cur, s[1]))

\* lines 951-958
sCodesOf(genSBirds) ==
  SetOf(SelectSeq([k \in 1..Len(SplitCommaSpace(genSBirds, <<>>)) |->
                     ToUpper(Trim(SplitCommaSpace(genSBirds, <<>>)[k]))],
                  LAMBDA c : Len(c) = 2 /\ c[1] \in {"F", "S"} /\ IsDigit(c[2])))

\* Object.keys(defectMap).sort()
RECURSIVE SortCodes(_)
SortCodes(codes) ==
  IF codes = {} THEN <<>>
  ELSE LET rank(c) == 10 * IndexOf(<<"F","S">>, c[1]) + IndexOf(Digits, c[2])
           first   == CHOOSE c \in codes : \A d \in codes : rank(c) <= rank(d)
       IN  <<first>> \o SortCodes(codes \ {first})

RECURSIVE JoinComma(_)
JoinComma(parts) ==
  IF Len(parts) = 0 THEN <<>>
  ELSE IF Len(parts) = 1 THEN parts[1]
  ELSE parts[1] \o <<","," ">> \o JoinComma(Tail(parts))

Prefixed(prefix, items) == [k \in 1..Len(items) |-> prefix \o items[k]]

\* lines 981-996: the lines of one defect; last holds for the last code
DefectLines(d, last) ==
  <<<<"*">> \o d.code \o <<" ","-"," ","G","R">>>>
  \o (IF d.us # <<>> THEN <<<<"I","n","p","u","t",":"," ">> \o d.us>> ELSE <<>>)
  \o (IF d.etr # <<>> THEN <<<<"E","T","R",":"," ">> \o d.etr>> ELSE <<>>)
  \o <<<<>>>>
  \o (IF d.defect # <<>> THEN <<<<"-"," ","D","e","f","e","c","t",":"," ">> \o d.defect>> ELSE <<>>)
  \o (IF d.rect # <<>> THEN <<<<">"," ","R","e","c","t",":"," ">> \o d.rect>> ELSE <<>>)
  \o (IF d.recovery THEN <<<<">"," ","P","o","s","t"," ","p","h","a","s","e"," ","r","c","v">>, <<>>>> ELSE <<>>)
  \o (IF d.gr # <<>> THEN <<<<"R","e","q","u","i","r","e","m","e","n","t","s">>, <<"-"," ","G","/","R">>>> \o Prefixed(<<">"," ">>, d.gr) ELSE <<>>)
  \o (IF d.fcf # <<>>
      THEN (IF d.gr = <<>> THEN <<<<"R","e","q","u","i","r","e","m","e","n","t","s">>>> ELSE <<>>)
           \o <<<<"-"," ","F","C","F">>>> \o Prefixed(<<">"," ">>, d.fcf)
      ELSE <<>>)
  \o (IF last THEN <<>> ELSE <<<<>>>>)

RECURSIVE AllDefectLines(_, _)
AllDefectLines(defectMap, codes) ==
  IF codes = <<>> THEN <<>>
  ELSE DefectLines(TelegramFields(defectMap[codes[1]]), Len(codes) = 1)
       \o AllDefectLines(defectMap, Tail(codes))

RECURSIVE ServiceableLines(_)
ServiceableLines(codes) ==
  IF codes = <<>> THEN <<>>
  ELSE <<<<"*">> \o codes[1] \o <<" ","-"," ","S">>, <<>>>> \o ServiceableLines(Tail(codes))

\* lines 948-1006: the text handed to setRaw; day is formatDayHeader(selectedDate)
handleGenerate(tgText, genSBirds, genFishing, genHealing, day) ==
  LET defectMap == parseTelegramDefects(tgText)
      sCodes    == sCodesOf(genSBirds)
  IN  JoinLines(
        <<<<"N","i","g","h","t"," ","R","e","p","o","r","t"," ","f","o","r"," ">> \o day, <<>>,
          IntToStr(Len(sCodes)) \o <<" ","x"," ","LSQUO","S","RSQUO"," ","B","i","r","d">>,
          OrElse(JoinComma(sCodes), <<"EMDASH">>), <<>>,
          <<"F","i","s","h","i","n","g"," ","FISHING">>, OrElse(genFishing, <<"N","i","l">>), <<>>,
          <<"H","e","a","l","i","n","g"," ","HEART">>, OrElse(genHealing, <<"N","i","l">>), <<>>,
          <<"S","t","a","t","u","s"," ","HELI">>,
          <<"(","*"," ","d","e","n","o","t","e","s"," ","f","i","t","t","e","d"," ","w","i","t","h"," ","'","S","'"," ","E","O","S","S"," ","T","U",")">>,
          <<"(","^"," ","d","e","n","o","t","e","s"," ","f","i","t","t","e","d"," ","w","i","t","h"," ","LSQUO","U","/","S","RSQUO"," "," ","E","O","S","S"," ","T","U",")">>, <<>>>>
        \o AllDefectLines(defectMap, SortCodes(DOMAIN defectMap))
        \o (IF DOMAIN defectMap # {} THEN <<<<>>>> ELSE <<>>)
        \o ServiceableLines(SelectSeq(sCodes, LAMBDA c : c \notin DOMAIN defectMap)))

\* out holds the text handed to setRaw and, while parseReport works on it
\* for the Overview, its trimmed lines, the number k of lines the for loop
\* has taken and the entries so far
ApplyHandleGenerate ==
  /\ gen.kind = "generate"
  /\ fn = "none"
  /\ Apply("handleGenerate",
           [raw |-> handleGenerate(input, gen.sbirds, gen.fishing, gen.healing, gen.day)])

\* line 1066 and lines 163-169
ReportStart ==
  /\ fn = "handleGenerate"
  /\ Apply("parseReport.for",
           [raw |-> out.raw,
            lines |-> [i \in 1..Len(SplitLines(RemoveCR(out.raw))) |->
                        Trim(SplitLines(RemoveCR(out.raw))[i])],
            k |-> 0,
            st |-> [entries |-> EmptyMap, current |-> Null]])

\* lines 173-218: one pass of the for loop
ReportPass ==
  /\ fn = "parseReport.for"
  /\ out.k < Len(out.lines)
  /\ Apply("parseReport.for",
           [out EXCEPT !.k = @ + 1, !.st = ReportLine(@, out.lines[out.k + 1])])

\* lines 221-230
ReportEnd ==
  /\ fn = "parseReport.for"
  /\ out.k = Len(out.lines)
  /\ Apply("parseReport", [raw |-> out.raw, parsed |-> TaggedEntries(out.st.entries)])

InitGenerate == InitWith(GenerateGens)
NextGenerate == ApplyHandleGenerate \/ ReportStart \/ ReportPass \/ ReportEnd
SpecGenerate == InitGenerate /\ [][NextGenerate]_vars

\* parseReport line by line on a report that is pasted into the text area
\* lines 163-169
ReportStartPasted ==
  /\ gen.kind = "report"
  /\ fn = "none"
  /\ Apply("parseReport.for",
           [raw |-> input,
            lines |-> [i \in 1..Len(SplitLines(RemoveCR(input))) |->
                        Trim(SplitLines(RemoveCR(input))[i])],
            k |-> 0,
            st |-> [entries |-> EmptyMap, current |-> Null]])

InitReportFor == InitWith(TwiceGens)
NextReportFor == ReportStartPasted \/ ReportPass \/ ReportEnd
SpecReportFor == InitReportFor /\ [][NextReportFor]_vars

\* the parsers of whole texts, applied in one year and again in a later one
ClockDayLines == {<<"F","3"," ","1","1","3","0"," ","-"," ","2","2","0","0"," ","G","H","/","I","F">>, <<"N","o","t","e","s">>, <<"-"," ","b","r","i","n","g"," ","k","i","t">>}
ClockDayGens ==
  [kind : {"daily"}, header : DailyHeaders, body : SeqsUpTo(ClockDayLines, MaxBodyLines)]
ClockWeekGens == {g \in WeekGens : g.pre = <<>>}
InitClock == InitWith(HeaderGens \cup ClockDayGens \cup ClockWeekGens
                        \cup ReportGens \cup HotoGens \cup TelegramGens)
NextClock ==
  \/ AdvanceYear
  \/ ApplyParseDateHeader
  \/ ApplyParseRTSDaily
  \/ ApplyParseRTSWeek
  \/ ApplyParseReport
  \/ ApplyParseHOTO
  \/ ApplyParseTelegramDefects
SpecClock == InitClock /\ [][NextClock]_vars

\* every parser
Init == InitWith(HeaderGens \cup LineGens \cup RawGens \cup HealGens \cup DailyGens \cup UnlabelledGens
                   \cup LooseGens \cup WeekGens
                   \cup ReportGens \cup HotoGens \cup TelegramGens \cup EntryGens
                   \cup SectionGens)
Next ==
  \/ AdvanceYear
  \/ ApplyParseDateHeader
  \/ ApplyParseMissionLine
  \/ ApplyParseHealingLine
  \/ ApplyParseRTSDaily
  \/ ApplySplitWeekIntoDays
  \/ ApplyParseRTSWeek
  \/ ApplyParseReport
  \/ ApplyParseHOTO
  \/ ApplyParseTelegramDefects
  \/ ApplyDeriveStatusTag
  \/ ApplyParseSection
Spec == Init /\ [][Next]_vars

(***************************************************************************)
(* Properties of the parsers                                               *)
(***************************************************************************)

\* ---- what the parts of a text were meant to say
DaysIn(m, y) ==
  IF m = 2
  THEN (IF (y % 4 = 0 /\ y % 100 # 0) \/ y % 400 = 0 THEN 29 ELSE 28)
  ELSE IF m \in {4, 6, 9, 11} THEN 30 ELSE 31

\* the year a header's year part <<value, digits>> stands for
YearMeant(y) == IF y[2] = 2 THEN 2000 + y[1] ELSE y[1]

IsoText(y, m, d) == IntToStr(y) \o <<"-">> \o NumText(<<m, 2>>) \o <<"-">> \o NumText(<<d, 2>>)

\* a header with a known month, a day of that month and a 2- or 4-digit year
PlainDate(g) ==
  /\ g.year # <<>>
  /\ g.year[2] = 2 \/ (g.year[2] = 4 /\ g.year[1] >= 1000)
  /\ g.mon[2] \in 1..12
  /\ g.day[1] \in 1..DaysIn(g.mon[2], YearMeant(g.year))

\* YYYY-MM-DD naming a day of the calendar
IsCalendarDate(iso) ==
  /\ Len(iso) = 10
  /\ iso[5] = "-" /\ iso[8] = "-"
  /\ \A i \in {1, 2, 3, 4, 6, 7, 9, 10} : IsDigit(iso[i])
  /\ LET y == ParseInt(SubSeq(iso, 1, 4))
         m == ParseInt(SubSeq(iso, 6, 7))
         d == ParseInt(SubSeq(iso, 9, 10))
     IN  m \in 1..12 /\ d \in 1..DaysIn(m, y)

\* the year of an iso date: what stands before -MM-DD
YearPrefix(iso) == SubSeq(iso, 1, Len(iso) - 6)

IsUnitCode(k) == Len(k) = 2 /\ k[1] \in {"F", "S"} /\ k[2] \in DigitSet

\* C1: for a week made of day blocks only, parseRTSWeek returns one record
\* per block, in source order, and record k is equal to what parseRTSDaily
\* returns on block k taken alone.
C1_WeekMatchesDaily ==
  (fn = "parseRTSWeek" /\ gen.pre = <<>>) =>
    /\ Len(out) = Len(gen.days)
    /\ \A k \in 1..Len(gen.days) :
         out[k] = parseRTSDaily(BlockText(gen.days[k]), at)

\* ---- C2
HasNotes(body) == \E k \in 1..Len(body) : body[k] = <<"N","o","t","e","s">>
NotesTail(body) ==
  LET k == CHOOSE i \in 1..Len(body) :
             body[i] = <<"N","o","t","e","s">> /\ \A j \in 1..(i - 1) : body[j] # <<"N","o","t","e","s">>
  IN  SubSeq(body, k + 1, Len(body))
TrimmedNonBlank(ls) ==
  SelectSeq([i \in 1..Len(ls) |-> Trim(ls[i])], LAMBDA l : l # <<>>)

\* C2: in parseRTSDaily every non-blank line after the Notes header, up to
\* the end of the text, is in the notes list, trimmed and in source order,
\* whatever character it starts with.
C2_NotesKeepEveryLine ==
  (/\ fn = "parseRTSDaily" /\ gen.kind = "daily"
   /\ HasNotes(gen.body)
   /\ \A i \in 1..Len(NotesTail(gen.body)) : NotesTail(gen.body)[i] \in ContentLines)
    => out.notes = TrimmedNonBlank(NotesTail(gen.body))

\* ---- C3
TextParsers ==
  {"parseDateHeader", "parseRTSDaily", "parseRTSWeek",
   "parseReport", "parseHOTO", "parseTelegramDefects"}
DatedHeaders == {<<"1","3"," ","A","u","g"," ","2","5"," ","(","W","e","d",")">>, <<"1","4"," ","A","u","g"," ","2","0","2","4">>}
ShortYearHeaders == {<<"1","3"," ","A","u","g"," ","2","5"," ","(","W","e","d",")">>}

\* the text leaves no year to the clock: no date in it, or every date header
\* with a year part (for a week: a year part of two digits, the four-digit
\* year at the end of a day's header being cut off before the day is parsed)
YearInText(g) ==
  CASE g.kind \in {"report", "hoto", "telegram"} -> TRUE
    [] g.kind = "header" -> g.year # <<>>
    [] g.kind = "daily" -> g.header \in DatedHeaders
    [] g.kind \in {"line", "rawline"} -> DayHeader \in DatedHeaders
    [] g.kind = "week" -> \A k \in 1..Len(g.days) : g.days[k].header \in ShortYearHeaders

\* C3 as stated: two applications of a parser to the same text return equal
\* results, whatever happened in between, headers without a year included.
C3_PureFunctionOfText ==
  [][(fn' = fn /\ fn \in TextParsers) => out' = out]_vars

\* C3 amended: two applications of a parser to the same text return equal
\* results, in whatever years they are made, when the text leaves no year
\* to the clock.
C3_PureGivenYearInText ==
  [][(fn' = fn /\ fn \in TextParsers /\ YearInText(gen)) => out' = out]_vars

\* a dated day parsed in a later year than the text was pasted
C3_Witness ==
  /\ fn = "parseRTSDaily" /\ gen.kind = "daily"
  /\ gen.header = <<"1","3"," ","A","u","g"," ","2","5"," ","(","W","e","d",")">>
  /\ at > 2025
  /\ out.dateISO = <<"2","0","2","5","-","0","8","-","1","3">>

\* ---- C4
MapKeys ==
  CASE fn \in {"parseReport", "parseTelegramDefects"} -> DOMAIN out
    [] fn = "parseHOTO" -> (DOMAIN out.completed) \cup (DOMAIN out.outstanding)
    [] OTHER -> {}

\* C4: every key of the maps parseReport, parseTelegramDefects and parseHOTO
\* (completed, outstanding) return is F<digit> or S<digit> in upper case.
C4_KeysAreUnitCodes == \A k \in MapKeys : IsUnitCode(k)

\* a report with a lower-case code and a code of another letter
C4_Witness ==
  /\ fn = "parseReport"
  /\ \E i \in 1..Len(gen.lines) : gen.lines[i] = <<"f","3"," ","-"," ","s">>
  /\ \E i \in 1..Len(gen.lines) : gen.lines[i] = <<"X","1"," ","-"," ","U","/","S">>
  /\ DOMAIN out = {<<"F","3">>}

\* C5: a line whose unit code is followed by further digits or letters gives
\* no mission, spare or healing entry under the code cut to two characters.
C5_MalformedCodeDropped ==
  (gen.kind = "line" /\ gen.glued # <<>>) =>
    /\ fn = "parseMissionLine" => out.code # ToUpper(gen.code)
    /\ fn = "parseHealingLine" =>
         \A i \in 1..Len(out) : out[i].code # ToUpper(gen.code)
    /\ fn = "parseRTSDaily" =>
         /\ \A i \in 1..Len(out.missions) : out.missions[i].code # ToUpper(gen.code)
         /\ \A i \in 1..Len(out.spares) : out.spares[i].code # ToUpper(gen.code)

\* C6: for a header of day, month, year and parenthetical parseDateHeader
\* returns the iso of that date and a label of day, month and parenthetical
\* without the year, for years of two and of four digits.
C6_LabelDropsYear ==
  (fn = "parseDateHeader" /\ PlainDate(gen) /\ gen.paren # <<>>) =>
    /\ out.iso = IsoText(YearMeant(gen.year), gen.mon[2], gen.day[1])
    /\ out.label = Spaced(<<NumText(gen.day), gen.mon[1], gen.paren>>)

\* C7: an iso parseDateHeader returns is a day of the calendar written
\* YYYY-MM-DD, and a header with day 0, a day of 32 to 99 or a year of three
\* digits has no iso.
C7_IsoIsCalendarDate ==
  fn = "parseDateHeader" =>
    /\ out.iso # Null => IsCalendarDate(out.iso)
    /\ (\/ gen.day[1] = 0
        \/ gen.day[1] >= 32
        \/ (gen.year # <<>> /\ gen.year[2] = 3)) => out.iso = Null

\* C8: the year of the iso is 2000 + YY for a year part below 100, the year
\* part itself from 100 on, and the year of the clock at the parse when the
\* header has no year part.
C8_YearResolution ==
  (fn = "parseDateHeader" /\ out.iso # Null) =>
    YearPrefix(out.iso) =
      IntToStr(IF gen.year = <<>> THEN at
               ELSE IF gen.year[1] < 100 THEN 2000 + gen.year[1]
               ELSE gen.year[1])

\* a header with the year part 99
C8_Witness ==
  /\ fn = "parseDateHeader"
  /\ gen.day = <<13, 2>> /\ gen.mon[2] = 8 /\ gen.year = <<99, 2>>
  /\ out.iso = <<"2","0","9","9","-","0","8","-","1","3">>

\* C9: a line of a unit code, an optional : or -, a time range and a rest
\* without the word spare gives a mission under the upper-cased code, its
\* label the time range without blanks, one blank and the rest.
C9_MissionLabel ==
  (/\ fn = "parseMissionLine" /\ gen.kind = "line"
   /\ gen.glued = <<>> /\ gen.time # <<>>
   /\ gen.spare \in {<<>>, <<"s","p","a","r","e","s">>}
   /\ RestText(gen) # <<>>)
    => out = [type |-> "mission", code |-> ToUpper(gen.code),
              label |-> gen.time[1] \o <<"-">> \o gen.time[3] \o Sp \o RestText(gen)]

C9_Witness ==
  /\ fn = "parseMissionLine"
  /\ input = <<"F","3"," ","1","1","3","0"," ","-"," ","2","2","0","0"," ","G","H","/","I","F">>
  /\ out.code = <<"F","3">> /\ out.label = <<"1","1","3","0","-","2","2","0","0"," ","G","H","/","I","F">>

\* ---- C10
IsSpareLine(g) ==
  g.kind = "line" /\ g.glued = <<>> /\ g.spare \in {<<"S","p","a","r","e">>, <<"s","p","a","r","e">>}
\* <code> Spare, then what follows the word spare where it opens the rest,
\* the whole rest otherwise; a time range is not part of the label
SpareMeant(g) ==
  [type |-> "spare", code |-> ToUpper(g.code),
   label |-> Spaced(<<ToUpper(g.code) \o <<" ","S","p","a","r","e">>,
                      IF g.pre = <<>> THEN g.post ELSE RestText(g)>>)]

\* C10: a line that starts with a unit code and has the word spare, not
\* followed by window, gives a spare entry under that code with the label
\* <code> Spare and the trailing text, and parseRTSDaily puts the entry in
\* spares and not in missions.
C10_SpareEntry ==
  IsSpareLine(gen) =>
    /\ fn = "parseMissionLine" => out = SpareMeant(gen)
    /\ fn = "parseRTSDaily" => out.spares = <<SpareMeant(gen)>> /\ out.missions = <<>>

C10_Witness ==
  /\ fn = "parseRTSDaily"
  /\ input = DayHeader \o <<"\n","s","5"," ","S","p","a","r","e"," ","(","E","R","C",")">>
  /\ out.missions = <<>>
  /\ out.spares = <<[type |-> "spare", code |-> <<"S","5">>, label |-> <<"S","5"," ","S","p","a","r","e"," ","(","E","R","C",")">>]>>

\* C11: a line whose only word spare stands in the phrase spare window is
\* not a spare entry of parseMissionLine, wherever the phrase stands, directly
\* after the unit code included.
C11_SpareWindowNotSpare ==
  (fn = "parseMissionLine" /\ gen.kind = "line" /\ gen.spare = <<"s","p","a","r","e"," ","w","i","n","d","o","w">>)
    => out.type # "spare"

\* ---- C12
\* lines with a unit code inside, as <<line, code>>
CodeInsideLines == {<<<<"S","t","a","n","d","b","y"," ","S","3"," ","s","p","a","r","e">>, <<"S","3">>>>}

\* C12: a line with a unit code anywhere and the word spare after it, which
\* is no spare window, gives a spare entry under the code found, its label
\* the whole line.
C12_CodeAnywhereSpare ==
  \A l \in CodeInsideLines :
    (fn = "parseMissionLine" /\ gen.kind = "rawline" /\ gen.text = l[1])
      => out = [type |-> "spare", code |-> l[2], label |-> l[1]]

\* ---- C13
NoRuleLines == {<<>>, <<"n","i","l">>, <<"N","I","L">>, <<"N","i","l">>, <<"R","S","D","X">>, <<"1","2"," ","p","a","x">>, <<"F"," ","3"," ","1","1","3","0","-","2","2","0","0">>}
NilSpareLines == {<<"N","i","l"," ","S","p","a","r","e">>, <<"n","i","l"," "," ","s","p","a","r","e"," ","t","o","d","a","y">>}
BulkNoticeLines == {<<"B","M","D"," ","0","9","0","0"," ","b","r","i","e","f">>, <<"r","s","d">>}

\* C13: parseMissionLine returns no entry for the empty line, for nil in any
\* letter case and for a line no rule recognises; a line that starts with
\* nil spare gives a spare entry with null code and the label Nil Spare; a
\* line that starts with the word BMD or RSD gives a mission with null code
\* and the whole line as label.
C13_NilAndBulkLines ==
  (fn = "parseMissionLine" /\ gen.kind = "rawline") =>
    /\ gen.text \in NoRuleLines => out = NoEntry
    /\ gen.text \in NilSpareLines =>
         out = [type |-> "spare", code |-> Null, label |-> <<"N","i","l"," ","S","p","a","r","e">>]
    /\ gen.text \in BulkNoticeLines =>
         out = [type |-> "mission", code |-> Null, label |-> gen.text]

C13_Witness ==
  /\ fn = "parseMissionLine"
  /\ input = <<"n","i","l"," "," ","s","p","a","r","e"," ","t","o","d","a","y">>
  /\ out.type = "spare" /\ out.code = Null /\ out.label = <<"N","i","l"," ","S","p","a","r","e">>

\* ---- C14
\* the entries a healing line of parts g is meant to give
HealMeant(g) ==
  IF Len(g.times) = 0
  THEN <<[code |-> ToUpper(g.code), label |-> Spaced(<<g.lead, g.tail>>)]>>
  ELSE [i \in 1..Len(g.times) |->
         [code  |-> ToUpper(g.code),
          label |-> Spaced(<<g.times[i][1] \o <<"-">> \o g.times[i][3], g.tail>>)]]

\* C14: a healing line of a unit code and a rest with k >= 1 time ranges
\* gives k entries in source order under that code, entry i labelled with
\* the i-th range without blanks and the text after the last range; with no
\* range it gives one entry labelled with the rest; a line without a leading
\* unit code gives one entry with null code and the whole line.
C14_HealingEntries ==
  fn = "parseHealingLine" =>
    /\ (gen.kind = "heal" /\ Spaced(<<gen.lead, TimesText(gen.times), gen.tail>>) # <<>>)
         => out = HealMeant(gen)
    /\ (gen.kind = "rawline" /\ gen.text \notin {<<>>, <<"n","i","l">>, <<"N","I","L">>, <<"N","i","l">>})
         => out = <<[code |-> Null, label |-> gen.text]>>

\* two time ranges that share the text after the last one
C14_Witness ==
  /\ fn = "parseHealingLine"
  /\ input = <<"s","5"," ","1","3","0","0"," ","-"," ","1","4","0","0",","," ","9","0","0","-","1","0","0","0"," ","F","C","F">>
  /\ out = <<[code |-> <<"S","5">>, label |-> <<"1","3","0","0","-","1","4","0","0"," ","F","C","F">>],
             [code |-> <<"S","5">>, label |-> <<"9","0","0","-","1","0","0","0"," ","F","C","F">>]>>

\* C15: for a day without an RTS: line, parseRTSDaily returns the record it
\* returns when an RTS: line is put directly under the date line.
C15_ImplicitEqualsExplicitRTS ==
  (/\ fn = "parseRTSDaily" /\ gen.kind = "daily"
   /\ \A i \in 1..Len(gen.body) : ~H_RTS(gen.body[i]))
    => out = parseRTSDaily(JoinLines(<<gen.header, <<"R","T","S",":">>>> \o gen.body), at)

\* ---- C16
DayFields ==
  {"dateISO", "dateLabel", "missions", "spares", "healing", "hot", "cold", "ops", "notes"}
DayLists == {"missions", "spares", "healing", "hot", "cold", "ops", "notes"}

\* C16: parseRTSDaily returns null for no text but the empty one, and for
\* every text, without any section header or empty, it returns a record
\* with the date fields and all seven lists.
C16_AlwaysADayRecord ==
  fn = "parseRTSDaily" =>
    /\ DOMAIN out = DOMAIN NoDay => input = <<>>
    /\ DOMAIN out = DayFields
    /\ \A f \in DayLists : DOMAIN out[f] = 1..Len(out[f])

\* a text without a date and without a section header
C16_Witness ==
  /\ fn = "parseRTSDaily"
  /\ input = <<"h","e","l","l","o","\n","w","o","r","l","d">>
  /\ out.dateISO = Null /\ out.dateLabel = <<"h","e","l","l","o">>
  /\ \A f \in DayLists : out[f] = <<>>

\* C17 as stated: splitWeekIntoDays returns one block per day-header line, in
\* source order, block k made of exactly the lines from the k-th header line
\* up to the next one or the end of the text; the lines before the first
\* header line are in no block.
C17_BlocksHoldExactLines ==
  fn = "splitWeekIntoDays" =>
    out = [k \in 1..Len(gen.days) |-> BlockText(gen.days[k])]

\* C17 amended: the same, each block with the white space at its start and
\* end, blank lines at its end included, trimmed away.
C17_BlocksHoldTrimmedLines ==
  fn = "splitWeekIntoDays" =>
    out = [k \in 1..Len(gen.days) |-> Trim(BlockText(gen.days[k]))]

\* lines before the first day, and a day that ends in a blank line
C17_Witness ==
  /\ fn = "splitWeekIntoDays"
  /\ input = <<"W","e","e","k"," ","3","3"," ","p","l","a","n","\n","1","5"," ","A","u","g","\n","F","2"," ","1","0","0","0","-","1","1","0","0"," ","H","o","t","e","l","\n","\n","1","4"," ","A","u","g"," ","2","0","2","4","\n","F","3"," ","1","1","3","0","-","2","2","0","0"," ","G","H","\n","S","3"," ","S","p","a","r","e">>
  /\ out = <<<<"1","5"," ","A","u","g","\n","F","2"," ","1","0","0","0","-","1","1","0","0"," ","H","o","t","e","l">>, <<"1","4"," ","A","u","g"," ","2","0","2","4","\n","F","3"," ","1","1","3","0","-","2","2","0","0"," ","G","H","\n","S","3"," ","S","p","a","r","e">>>>

\* ---- C18
\* the header lines of the pool, as <<line, code, free text>>
ReportHeads == {<<<<"*","S","2"," ","-"," ","G","R">>, <<"S","2">>, <<"G","R">>>>, <<<<"f","3"," ","-"," ","s">>, <<"F","3">>, <<"s">>>>}
HeadsIn(lines) == {h \in ReportHeads : \E i \in 1..Len(lines) : lines[i] = h[1]}
\* the lines from the first header line on
FromFirstHead(lines) ==
  LET heads == {i \in 1..Len(lines) : \E h \in ReportHeads : lines[i] = h[1]}
  IN  IF heads = {} THEN <<>>
      ELSE SubSeq(lines, CHOOSE i \in heads : \A j \in heads : i <= j, Len(lines))

\* C18: parseReport has an entry for every unit code with a header line, and
\* for no other; its title is the code, " - " and the free text of the header;
\* the lines before the first header line add nothing to any entry.
C18_TitlesAndLeadingLines ==
  fn = "parseReport" =>
    /\ DOMAIN out = {h[2] : h \in HeadsIn(gen.lines)}
    /\ \A h \in HeadsIn(gen.lines) : out[h[2]].title = h[2] \o <<" ","-"," ">> \o h[3]
    /\ out = parseReport(JoinLines(FromFirstHead(gen.lines)))

\* a field line before the only header line
C18_Witness ==
  /\ fn = "parseReport"
  /\ gen.lines = <<<<"I","n","p","u","t",":"," ","1"," ","A","u","g">>, <<"f","3"," ","-"," ","s">>, <<"-"," ","E","T","R",":"," ","5"," ","A","u","g">>>>
  /\ out[<<"F","3">>].title = <<"F","3"," ","-"," ","s">>
  /\ out[<<"F","3">>].input = <<>> /\ out[<<"F","3">>].etr = <<"5"," ","A","u","g">>

\* ---- C19
AngleNotes == {<<<<">"," ","*","F","1","2"," ","-"," ","S">>, <<">"," ","*","F","1","2"," ","-"," ","S">>>>}
DashNotes == {<<<<"-"," ","E","T","R",":"," ","5"," ","A","u","g">>, <<"E","T","R",":"," ","5"," ","A","u","g">>>>}
\* the notes the lines after the last header line are meant to give, a line
\* with > keeping the marker "> ", a line with - losing its prefix
RECURSIVE NotesMeant(_)
NotesMeant(lines) ==
  IF Len(lines) = 0 THEN <<>>
  ELSE LET l == lines[Len(lines)]
           rest == SubSeq(lines, 1, Len(lines) - 1)
       IN  IF \E h \in ReportHeads : h[1] = l THEN <<>>
           ELSE IF \E n \in AngleNotes \cup DashNotes : n[1] = l
           THEN NotesMeant(rest)
                  \o <<(CHOOSE n \in AngleNotes \cup DashNotes : n[1] = l)[2]>>
           ELSE NotesMeant(rest)

\* C19: in parseReport a note line that starts with > is kept in the notes
\* with the marker "> " at its front, and a line that starts with - is kept
\* without its prefix.
C19_AngleNotesKeepMarker ==
  (fn = "parseReport" /\ Len(gen.lines) >= 1 /\ gen.lines[1] = <<"*","S","2"," ","-"," ","G","R">>
     /\ \A i \in 2..Len(gen.lines) : \A h \in ReportHeads : gen.lines[i] # h[1])
    => out[<<"S","2">>].notes = NotesMeant(gen.lines)

\* ---- C20
\* the pooled texts that carry each marker; the phase marker counts in a title only
AogTexts == {<<"S","6"," ","-"," ","A","O","G">>, <<"a","w","a","i","t","i","n","g"," ","p","a","r","t","s",","," ","'","A","O","G","'">>}
RectTexts ==
  {<<"F","3"," ","-"," ","G","R">>, <<"5"," ","A","u","g",","," ","d","e","f","e","c","t"," ","o","p","e","n">>, <<"g","e","a","r","b","o","x"," ","U","/","S">>, <<"e","n","g","i","n","e"," ","U","S">>, <<"r","e","c","t"," ","i","n"," ","p","r","o","g","r","e","s","s">>}
PhaseTitles == {<<"S","1"," ","-"," ","M","a","j","o","r"," ","S","e","r","v"," ","(","3","6","5","D",")">>, <<"F","2"," ","-"," ","P","h","a","s","e"," ","2">>, <<"S","4"," ","-"," ","P","o","s","t"," ","P","h","a","s","e"," ","R","c","v">>}
RecoveryTexts == {<<"S","4"," ","-"," ","P","o","s","t"," ","P","h","a","s","e"," ","R","c","v">>, <<"F","5"," ","-"," ","R","e","c","o","v","e","r","y">>, <<"r","e","c","o","v","e","r","y"," ","f","l","i","g","h","t">>}
EntryTexts(g) == {g.title, g.input, g.etr} \cup {g.notes[i] : i \in 1..Len(g.notes)}
StatusTags == {"aog", "rectification", "in-phase", "recovery", "serviceable"}
TagMeant(g) ==
  IF EntryTexts(g) \cap AogTexts # {} THEN "aog"
  ELSE IF EntryTexts(g) \cap RectTexts # {} THEN "rectification"
  ELSE IF g.title \in PhaseTitles THEN "in-phase"
  ELSE IF EntryTexts(g) \cap RecoveryTexts # {} THEN "recovery"
  ELSE "serviceable"

\* C20: deriveStatusTag returns one of the five tags, and it is the tag of the
\* highest-priority marker the entry carries, in the order aog > rectification
\* > in-phase (title) > recovery > serviceable.
C20_HighestPriorityTag ==
  fn = "deriveStatusTag" => out \in StatusTags /\ out = TagMeant(gen)

\* an entry whose title says phase and recovery and whose note says AOG is tagged aog
C20_Witness ==
  /\ fn = "deriveStatusTag"
  /\ gen.title \in PhaseTitles \cap RecoveryTexts
  /\ EntryTexts(gen) \cap AogTexts # {}
  /\ out = "aog"

\* ---- C21
\* C21: the status tag is decided by the title and the notes of the entry: an
\* entry with the same title and the same notes, whatever its input and ETR,
\* gets the tag this entry got.
C21_TagFromTitleAndNotes ==
  fn = "deriveStatusTag" =>
    \A g \in EntryGens :
      g.title = gen.title /\ g.notes = gen.notes => deriveStatusTag(EntryOf(g)) = out

\* ---- C22
\* what the head, the code line and an item line of a handover group say
IsOutstanding(g) == g.head = <<"RED"," ","O","u","t","s","t","a","n","d","i","n","g">>
GroupCode(g) == IF g.code = <<"S","1">> THEN <<"S","1">> ELSE <<"F","2">>
GroupOf(g, res) ==
  IF IsOutstanding(g) THEN res.outstanding[GroupCode(g)].items
  ELSE res.completed[GroupCode(g)]
HasGroup(g, res) ==
  GroupCode(g) \in DOMAIN (IF IsOutstanding(g) THEN res.outstanding ELSE res.completed)
DashMeant(line) ==
  CASE line = <<"-"," ","i","t","e","m">> -> <<"i","t","e","m">>
    [] line = <<"-","i","t","e","m"," ","t","w","o">> -> <<"i","t","e","m"," ","t","w","o">>
    [] line = <<"-"," "," ","f","i","x"," ","p","u","m","p">> -> <<"f","i","x"," ","p","u","m","p">>
AllIn(seq, set) == \A k \in 1..Len(seq) : seq[k] \in set

\* C22: a unit code under Outstanding followed by n lines that start with "-"
\* has an outstanding group of exactly those n items, in the order of the
\* text, each without its "-" and the white space after it.
C22_DashItems ==
  (fn = "parseHOTO" /\ gen.shape = "group" /\ IsOutstanding(gen)
     /\ AllIn(gen.body, DashItems))
  => /\ HasGroup(gen, out)
     /\ GroupOf(gen, out) = [k \in 1..Len(gen.body) |-> DashMeant(gen.body[k])]

\* three "-" lines under a code give a group of three items
C22_Witness ==
  /\ fn = "parseHOTO" /\ gen.shape = "group" /\ IsOutstanding(gen)
  /\ AllIn(gen.body, DashItems) /\ Len(gen.body) = 3
  /\ gen.body[1] # gen.body[2]
  /\ Len(GroupOf(gen, out)) = 3

\* ---- C23
ItemMeant(line) ==
  CASE line \in DashItems -> DashMeant(line)
    [] line = <<"BULLET"," ","g","r","e","a","s","e"," ","h","u","b">> -> <<"g","r","e","a","s","e"," ","h","u","b">>
    [] line = <<"BULLET","c","h","e","c","k"," ","o","i","l">> -> <<"c","h","e","c","k"," ","o","i","l">>

\* C23: under an active unit code a line that starts with the bullet, with or
\* without a space after it, is an item like a line that starts with "-": the
\* marker goes and the rest is appended to the group.
C23_BulletItems ==
  (fn = "parseHOTO" /\ gen.shape = "group" /\ AllIn(gen.body, DashItems \cup BulletItems))
  => /\ HasGroup(gen, out)
     /\ GroupOf(gen, out) = [k \in 1..Len(gen.body) |-> ItemMeant(gen.body[k])]

\* ---- C24
FreeLines == {<<"w","a","s","h"," ","d","o","n","e">>, <<"S","2"," ","e","n","g","i","n","e"," ","w","a","s","h"," ","d","o","n","e">>}

\* C24: only a line that is a unit code with an optional parenthetical starts
\* a group; a line that goes on with free text after a unit code is appended
\* as it stands to the active group, and so is every other line of free text.
C24_CodeWithTextIsAnItem ==
  (fn = "parseHOTO" /\ gen.shape = "group" /\ AllIn(gen.body, FreeLines))
  => /\ HasGroup(gen, out)
     /\ GroupOf(gen, out) = gen.body
     /\ <<"S","2">> \notin DOMAIN out.completed \cup DOMAIN out.outstanding

\* ---- C25
\* the groups a result holds in the section of a head: unit code -> items
ItemsUnder(head, res) ==
  IF head = <<"RED"," ","O","u","t","s","t","a","n","d","i","n","g">>
  THEN [c \in DOMAIN res.outstanding |-> res.outstanding[c].items]
  ELSE res.completed
\* the groups of the first and of the second section of a two-section handover
FirstGroups == [c \in {<<"S","1">>} |-> <<<<"o","n","e">>>>]
SecondGroups(g) == IF g.tail = <<>> THEN EmptyMap ELSE [c \in {<<"F","2">>} |-> <<<<"t","w","o">>>>]
GroupsMeant(g, head) ==
  LET first  == IF g.head = head THEN FirstGroups ELSE EmptyMap
      second == IF g.head2 = head THEN SecondGroups(g) ELSE EmptyMap
  IN  [c \in DOMAIN first \cup DOMAIN second |->
         IF c \in DOMAIN first THEN first[c] ELSE second[c]]

\* C25: a Job Completed or Outstanding header forgets the current unit code.
\* The lines under such a header before a line of a unit code are dropped and
\* reach no group of an earlier section, and so are the lines before the
\* first header: the result holds the groups of the two sections and no more.
C25_HeaderResetsCode ==
  (fn = "parseHOTO" /\ gen.shape = "reset")
  => \A head \in GroupHeads : ItemsUnder(head, out) = GroupsMeant(gen, head)

\* lines before the first header and lines under the second header were
\* there to be dropped, and the group of the first section is as it was
C25_Witness ==
  /\ fn = "parseHOTO" /\ gen.shape = "reset"
  /\ gen.pre # <<>> /\ gen.orphans # <<>> /\ gen.head = gen.head2 /\ gen.tail # <<>>
  /\ ItemsUnder(gen.head, out)[<<"S","1">>] = <<<<"o","n","e">>>>

\* ---- C26
\* the category each of the twelve headers stands for
CategoryMeant(head) ==
  CASE head = <<"BULLET"," ","1","4","D"," ","S","E","R","V"," ","P","R","O","J","E","C","T","I","O","N">> -> "proj14"
    [] head = <<"BULLET"," ","2","8","D"," ","S","E","R","V"," ","P","R","O","J","E","C","T","I","O","N">> -> "proj28"
    [] head = <<"BULLET"," ","5","6","D"," ","S","E","R","V"," ","P","R","O","J","E","C","T","I","O","N">> -> "proj56"
    [] head = <<"BULLET"," ","1","1","2","D","/","1","5","0","H","r","l","y"," ","P","R","O","J","E","C","T","I","O","N">> -> "proj112150"
    [] head = <<"BULLET"," ","1","1","2","D"," ","S","E","R","V"," ","P","R","O","J","E","C","T","I","O","N">> -> "proj112"
    [] head = <<"BULLET"," ","1","8","0","D"," ","S","E","R","V"," ","P","R","O","J","E","C","T","I","O","N">> -> "proj180"
    [] head = <<"SQUARE"," ","M","E","E">> -> "mee"
    [] head = <<"SQUARE"," ","E","O","S","S"," ","S","t","a","t","u","s">> -> "eoss"
    [] head = <<"SQUARE"," ","B","R","U"," ","S","t","a","t","u","s">> -> "bru"
    [] head = <<"SQUARE"," ","P","r","o","b","e"," ","S","t","a","t","u","s">> -> "probe"
    [] head = <<"CIRCLE"," ","A","O","M">> -> "aom"
    [] head = <<"CIRCLE"," ","L","e","s","s","o","n"," ","l","e","a","r","n","t">> -> "lessons"
ExtraMeant(line) == IF line = <<"-"," ","S","1"," ","d","u","e"," ","5"," ","A","u","g">> THEN <<"S","1"," ","d","u","e"," ","5"," ","A","u","g">> ELSE line
ExtraItems(body) == [k \in 1..Len(body) |-> ExtraMeant(body[k])]

\* C26: each of the twelve headers selects its own category, the 112D/150Hrly
\* header proj112150 and the 112D SERV header proj112, and the lines under a
\* header go to the category of the latest header and to no other.
C26_ExtraCategories ==
  (fn = "parseHOTO" /\ gen.shape = "extra")
  => /\ \A h1, h2 \in ExtraHeads : h1 # h2 => CategoryMeant(h1) # CategoryMeant(h2)
     /\ DOMAIN out.extra = {CategoryMeant(h) : h \in ExtraHeads}
     /\ \A c \in DOMAIN out.extra :
          out.extra[c] =
            (IF CategoryMeant(gen.head) = c THEN ExtraItems(gen.body) ELSE <<>>)
              \o (IF CategoryMeant(gen.head2) = c THEN ExtraItems(gen.body2) ELSE <<>>)

\* lines under the 112D SERV header and then under the 112D/150Hrly header
C26_Witness ==
  /\ fn = "parseHOTO" /\ gen.shape = "extra"
  /\ gen.head = <<"BULLET"," ","1","1","2","D"," ","S","E","R","V"," ","P","R","O","J","E","C","T","I","O","N">> /\ gen.body # <<>>
  /\ gen.head2 = <<"BULLET"," ","1","1","2","D","/","1","5","0","H","r","l","y"," ","P","R","O","J","E","C","T","I","O","N">> /\ gen.body2 # <<>>
  /\ out.extra["proj112"] = ExtraItems(gen.body)
  /\ out.extra["proj112150"] = ExtraItems(gen.body2)

\* ---- C27
\* the lines that head the group of S1, and those of them that carry a tag
S1Heads == {<<"S","1">>, <<"S","1"," ","(","A","O","G",")">>, <<"s","1"," ","(","G","R",")">>}
S1TagMeant(line) == IF line = <<"S","1"," ","(","A","O","G",")">> THEN <<"A","O","G">> ELSE <<"G","R">>
TaggedAt(body) == {k \in 1..Len(body) : body[k] \in S1Heads \ {<<"S","1">>}}
LatestTag(body) ==
  IF TaggedAt(body) = {} THEN <<>>
  ELSE S1TagMeant(body[CHOOSE k \in TaggedAt(body) : \A j \in TaggedAt(body) : j <= k])

\* C27: the tag of an outstanding group is the parenthetical of the latest
\* line of its unit code that carries one; a later line of the code without a
\* parenthetical keeps it, and the tag is empty only if no line carried one.
C27_LatestTagKept ==
  (fn = "parseHOTO" /\ gen.shape = "tags" /\ \E k \in 1..Len(gen.body) : gen.body[k] \in S1Heads)
  => /\ <<"S","1">> \in DOMAIN out.outstanding
     /\ out.outstanding[<<"S","1">>].tag = LatestTag(gen.body)

\* S1 (AOG), then s1 (GR), then S1 alone: the tag is GR
C27_Witness ==
  /\ fn = "parseHOTO" /\ gen.shape = "tags"
  /\ gen.body = <<<<"S","1"," ","(","A","O","G",")">>, <<"s","1"," ","(","G","R",")">>, <<"S","1">>>>
  /\ out.outstanding[<<"S","1">>].tag = <<"G","R">>

\* ---- C28
\* the blocks of a defect feed that are a bare unit code and nothing else,
\* with the code they name, and each block as it is stored
BareMeant(b) ==
  CASE b = <<"S","1">> -> <<"S","1">>
    [] b = <<" ","f","2"," ">> -> <<"F","2">>
    [] OTHER -> <<>>
BlockMeant(b) == IF b = <<" ","f","2"," ">> THEN <<"f","2">> ELSE b
BareAt(blocks) == {k \in 1..Len(blocks) : BareMeant(blocks[k]) # <<>>}
\* the last block of the record that starts at the bare block k
RecordEnd(blocks, k) ==
  IF \E j \in BareAt(blocks) : j > k
  THEN (CHOOSE j \in BareAt(blocks) : j > k /\ \A i \in BareAt(blocks) : i > k => j <= i) - 1
  ELSE Len(blocks)
\* the bare blocks whose record is not replaced by a later one of the same code
Stored(blocks) ==
  {k \in BareAt(blocks) :
     \A j \in BareAt(blocks) : j > k => BareMeant(blocks[j]) # BareMeant(blocks[k])}

\* C28: a block starts a record exactly if it is a bare unit code and nothing
\* else; the record holds the blocks from there up to the next such block,
\* in order; blocks before the first bare code belong to no record.
C28_RecordsStartAtBareCodes ==
  (fn = "parseTelegramDefects")
  => /\ DOMAIN out = {BareMeant(gen.blocks[k]) : k \in BareAt(gen.blocks)}
     /\ \A k \in Stored(gen.blocks) :
          out[BareMeant(gen.blocks[k])].lines =
            [i \in 1..(RecordEnd(gen.blocks, k) - k + 1) |-> BlockMeant(gen.blocks[k + i - 1])]

\* ---- C29
\* the keyword a line of the pool starts with, <<>> if it starts with none
KeywordMeant(line) ==
  CASE line = <<"H","o","t">> -> <<"H","o","t">>
    [] line = <<"n","o","t","e","s",":"," ","n","o","n","e">> -> <<"N","o","t","e","s">>
    [] line = <<"O","p","s"," ","B","r","i","e","f">> -> <<"O","p","s"," ","B","r","i","e","f">>
    [] OTHER -> <<>>
\* a line of the pool without the white space around it
LineMeant(line) ==
  CASE line = <<" "," ">> -> <<>>
    [] line = <<" ","-"," ","b","r","i","n","g"," ","k","i","t"," ">> -> <<"-"," ","b","r","i","n","g"," ","k","i","t">>
    [] OTHER -> line
IsTerminator(line, hs) == \E k \in 1..Len(hs) : hs[k] = KeywordMeant(line)
\* the index of the first terminator from i on, one past the last line if none
StopMeant(lines, i, hs) ==
  IF \E k \in i..Len(lines) : IsTerminator(lines[k], hs)
  THEN CHOOSE k \in i..Len(lines) :
         IsTerminator(lines[k], hs) /\ \A j \in i..(k - 1) : ~IsTerminator(lines[j], hs)
  ELSE Len(lines) + 1
\* the index of the last line from i to e - 1 that is not blank, i - 1 if none
LastFull(lines, i, e) ==
  IF \E k \in i..(e - 1) : LineMeant(lines[k]) # <<>>
  THEN CHOOSE k \in i..(e - 1) :
         LineMeant(lines[k]) # <<>> /\ \A j \in (k + 1)..(e - 1) : LineMeant(lines[j]) = <<>>
  ELSE i - 1

\* C29: parseSection collects the lines from the start index up to the first
\* line that starts with one of the given keywords, or to the end of the
\* input; nextIdx is the index of that line itself (one past the last line if
\* there is none); blank lines inside the section are kept as empty strings
\* and blank lines at its end are dropped.
C29_SectionUpToTerminator ==
  (fn = "parseSection" /\ gen.startIdx <= Len(gen.lines) + 1)
  => LET e == StopMeant(gen.lines, gen.startIdx, gen.nextHeaders)
         l == LastFull(gen.lines, gen.startIdx, e)
     IN  /\ out.nextIdx = e
         /\ out.items = [k \in 1..(l - gen.startIdx + 1) |-> LineMeant(gen.lines[gen.startIdx + k - 1])]

\* ---- C30
\* the place of a header line in the order RTS, Healing, Hot, Cold, Ops Brief,
\* Notes; 0 for a line that is no header
RankMeant(line) ==
  CASE line = <<"R","T","S",":">> -> 1
    [] line = <<"h","e","a","l","i","n","g">> -> 2
    [] line = <<"H","o","t",":">> -> 3
    [] line = <<"C","O","L","D">> -> 4
    [] line = <<"O","p","s"," ","B","r","i","e","f">> -> 5
    [] line = <<"N","o","t","e","s">> -> 6
    [] OTHER -> 0
\* the lines each section collects: a header of a later place opens its
\* section, every other line is content of the open section.  Place 0 is the
\* list of missions under the date line.
RECURSIVE SectionsMeant(_, _, _, _)
SectionsMeant(lines, i, open, acc) ==
  IF i > Len(lines) THEN acc
  ELSE IF RankMeant(lines[i]) > open
  THEN SectionsMeant(lines, i + 1, RankMeant(lines[i]), acc)
  ELSE SectionsMeant(lines, i + 1, open, [acc EXCEPT ![open] = Append(@, lines[i])])
\* no line stands under Notes, and no header is repeated
InOrderCase(body) ==
  /\ \A k \in 1..Len(body) : RankMeant(body[k]) = 6 => k = Len(body)
  /\ \A j, k \in 1..Len(body) : (j # k /\ RankMeant(body[j]) > 0) => body[j] # body[k]
EmptyDay ==
  [missions |-> <<>>, spares |-> <<>>]

\* C30: an RTS, Healing, Hot, Cold or Ops Brief section ends at the first
\* line that is a header of a later place in the order; a header of an
\* earlier place does not end it and is collected, with the lines under it,
\* as content of the open section.
C30_SectionsEndAtLaterHeaders ==
  (fn = "parseRTSDaily" /\ gen.kind = "sections" /\ InOrderCase(gen.body))
  => LET sec == SectionsMeant(gen.body, 1, 0, [r \in 0..6 |-> <<>>])
         rts == PushMissions(EmptyDay, sec[0] \o sec[1])
     IN  /\ out.missions = rts.missions
         /\ out.spares = rts.spares
         /\ out.healing = HealingOf(sec[2])
         /\ out.hot = sec[3]
         /\ out.cold = sec[4]
         /\ out.ops = sec[5]

\* Hot:, then healing, then a line: the Hot section holds both
C30_Witness ==
  /\ fn = "parseRTSDaily" /\ gen.kind = "sections"
  /\ gen.body = <<<<"H","o","t",":">>, <<"h","e","a","l","i","n","g">>, <<"S","1"," ","0","9","0","0","-","1","0","0","0">>>>
  /\ out.hot = <<<<"h","e","a","l","i","n","g">>, <<"S","1"," ","0","9","0","0","-","1","0","0","0">>>>
  /\ out.healing = <<>>

\* ---- C31
ScanLines == SplitLines(RemoveCR(input))
ScanDone == fn = "parseRTSDaily.while" /\ out.i > Len(ScanLines)
\* a pass moves the index forward and gives no line to a second list
PassAdvances ==
  (fn = "parseRTSDaily.while" /\ fn' = "parseRTSDaily.while")
  => /\ out'.i > out.i
     /\ \A k \in 1..Len(ScanLines) : out.owner[k] # "" => out'.owner[k] = out.owner[k]

\* C31: parseRTSDaily terminates: every pass of its main loop moves the scan
\* index forward, the loop is left with the record parseRTSDaily returns, and
\* no line of the input goes to more than one list.
C31_ScanTerminates ==
  /\ [][PassAdvances]_vars
  /\ <>[]ScanDone
  /\ [](ScanDone => out.rec = parseRTSDaily(input, now))

\* the loop is left after a mission under the date line and a Hot section
C31_Witness ==
  /\ ScanDone
  /\ \E j, k \in 1..Len(ScanLines) : out.owner[j] = "rts" /\ out.owner[k] = "hot"

HotoForLines == SplitLines(RemoveCR(input))

\* C32: parseHOTO never reads a group that is missing: no pass of the loop
\* throws, in the completed (outstanding) section a current unit code always
\* has its group in the completed (outstanding) map, and the loop ends with
\* the maps parseHOTO returns.
C32_GroupExists ==
  fn = "parseHOTO.for" =>
    /\ ~out.threw
    /\ (out.st.section = "completed" /\ out.st.currentCode # Null
          => out.st.currentCode \in DOMAIN out.st.completed)
    /\ (out.st.section = "outstanding" /\ out.st.currentCode # Null
          => out.st.currentCode \in DOMAIN out.st.outstanding)
    /\ (out.k = Len(HotoForLines)
          => [completed |-> out.st.completed, outstanding |-> out.st.outstanding,
              extra |-> out.st.extra] = parseHOTO(input))

\* a group of S1 in one section, then the other section with lines before
\* any unit code and a group of F2 that got its item
C32_Witness ==
  /\ fn = "parseHOTO.for" /\ gen.shape = "reset"
  /\ gen.head = <<"GREEN"," ","J","o","b"," ","C","o","m","p","l","e","t","e","d">> /\ gen.head2 = <<"RED"," ","O","u","t","s","t","a","n","d","i","n","g">>
  /\ gen.orphans # <<>> /\ gen.tail # <<>>
  /\ out.k = Len(HotoForLines)
  /\ out.st.completed = MapPut(EmptyMap, <<"S","1">>, <<<<"o","n","e">>>>)
  /\ out.st.outstanding = MapPut(EmptyMap, <<"F","2">>, [tag |-> <<>>, items |-> <<<<"t","w","o">>>>])

\* the groups and the MEE list a handover with an unknown header line is
\* meant to give: those of the same lines without that line
UnknownItems(ls) ==
  [k \in 1..Len(ls) |->
     IF ls[k] = <<"-"," ","b","e","f","o","r","e">> THEN <<"b","e","f","o","r","e">>
     ELSE IF ls[k] = <<"-"," ","a","f","t","e","r">> THEN <<"a","f","t","e","r">>
     ELSE IF ls[k] = <<"-"," ","m","o","r","e">> THEN <<"m","o","r","e">>
     ELSE ls[k]]
UnknownGroups(g) ==
  IF g.pre[1] = <<"S","1">>
  THEN IF Len(g.post) = 1
       THEN MapPut(EmptyMap, <<"S","1">>, <<<<"b","e","f","o","r","e">>, <<"a","f","t","e","r">>>>)
       ELSE MapPut(MapPut(EmptyMap, <<"S","1">>, <<<<"b","e","f","o","r","e">>, <<"a","f","t","e","r"," ","t","e","x","t">>>>),
                   <<"F","2">>, <<<<"m","o","r","e">>>>)
  ELSE IF Len(g.post) = 1 THEN EmptyMap ELSE MapPut(EmptyMap, <<"F","2">>, <<<<"m","o","r","e">>>>)
UnknownMeant(g) ==
  IF g.head = <<"GREEN"," ","J","o","b"," ","C","o","m","p","l","e","t","e","d">>
    THEN [completed |-> UnknownGroups(g), outstanding |-> EmptyMap, mee |-> <<>>]
  ELSE IF g.head = <<"RED"," ","O","u","t","s","t","a","n","d","i","n","g">>
    THEN [completed |-> EmptyMap,
          outstanding |-> [c \in DOMAIN UnknownGroups(g) |->
                             [tag |-> <<>>, items |-> UnknownGroups(g)[c]]],
          mee |-> <<>>]
  ELSE [completed |-> EmptyMap, outstanding |-> EmptyMap,
        mee |-> UnknownItems(g.pre \o g.post)]

UnknownPass ==
  /\ fn = "parseHOTO.for" /\ fn' = "parseHOTO.for"
  /\ out'.k = out.k + 1
  /\ HotoForLines[out'.k] \in UnknownHeads

\* C40: in parseHOTO a line with a header glyph that names no known section
\* is dropped: the pass over it leaves the section, the current unit code and
\* everything collected as they were, and the lines after it go to the
\* section or group that was active before it.
C40_UnknownHeaderDropped ==
  /\ [][UnknownPass => out'.st = out.st /\ ~out'.threw]_vars
  /\ [](fn = "parseHOTO.for" /\ gen.shape = "unknown" /\ out.k = Len(HotoForLines)
          => /\ out.st.completed = UnknownMeant(gen).completed
             /\ out.st.outstanding = UnknownMeant(gen).outstanding
             /\ out.st.extra["mee"] = UnknownMeant(gen).mee)

\* a group of S1 took an item before and another after the unknown line
C40_Witness ==
  /\ fn = "parseHOTO.for" /\ gen.shape = "unknown"
  /\ gen.unknown = <<"BULLET"," ","7","D"," ","S","E","R","V"," ","P","R","O","J","E","C","T","I","O","N">>
  /\ out.k = Len(HotoForLines)
  /\ out.st.completed = MapPut(EmptyMap, <<"S","1">>, <<<<"b","e","f","o","r","e">>, <<"a","f","t","e","r">>>>)

\* the handover as parsed, the pairs of a unit code and an item of its
\* outstanding group, and what the component's state says of a pair
TickHoto == parseHOTO(input)
TickFns == {"App", "toggleTick", "moveTickedToCompleted"}
OutstandingPairs ==
  UNION {{<<code, TickHoto.outstanding[code].items[k]>> :
            k \in 1..Len(TickHoto.outstanding[code].items)} :
         code \in DOMAIN TickHoto.outstanding}
Held(hotoDone, pair) ==
  /\ pair[1] \in DOMAIN hotoDone
  /\ \E k \in 1..Len(hotoDone[pair[1]]) : hotoDone[pair[1]][k] = pair[2]
TickSet(hotoTicks, pair) ==
  /\ (pair[1] \o <<"|">> \o pair[2]) \in DOMAIN hotoTicks
  /\ hotoTicks[pair[1] \o <<"|">> \o pair[2]]
Times(items, item) == Cardinality({k \in 1..Len(items) : items[k] = item})

\* C33: a confirmed moveTickedToCompleted puts every ticked item of an
\* outstanding group into hotoDone[code] and removes its tick key, keeps the
\* items hotoDone had and leaves no item twice in a list of hotoDone; with no
\* new ticked item (confirm is not called) or with the confirmation declined
\* hotoDone and hotoTicks stay as they were.
C33_MoveTicked ==
  [][fn' = "moveTickedToCompleted" =>
       LET ticked == {p \in OutstandingPairs : TickSet(out.hotoTicks, p)}
           new    == {p \in ticked : ~Held(out.hotoDone, p)}
       IN  /\ (new = {}) <=> (out'.answer = "none")
           /\ IF new # {} /\ out'.answer = "yes"
              THEN /\ \A p \in ticked :
                        /\ Held(out'.hotoDone, p)
                        /\ (p[1] \o <<"|">> \o p[2]) \notin DOMAIN out'.hotoTicks
                   /\ \A code \in DOMAIN out.hotoDone :
                        \A k \in 1..Len(out.hotoDone[code]) :
                          Held(out'.hotoDone, <<code, out.hotoDone[code][k]>>)
                   /\ \A code \in DOMAIN out'.hotoDone :
                        \A k \in 1..Len(out'.hotoDone[code]) :
                          Times(out'.hotoDone[code], out'.hotoDone[code][k]) = 1
              ELSE /\ out'.hotoDone = out.hotoDone
                   /\ out'.hotoTicks = out.hotoTicks]_vars

\* two items of S1 moved one after the other
C33_Witness ==
  /\ fn = "moveTickedToCompleted" /\ out.answer = "yes"
  /\ out.hotoDone = MapPut(EmptyMap, <<"S","1">>, <<<<"w","a","s","h">>, <<"f","i","x"," ","p","u","m","p">>>>)
  /\ out.hotoTicks = EmptyMap

\* the two views of an item of an outstanding group
InOutstandingView(pair) ==
  Times(NotMoved(TickHoto.outstanding[pair[1]].items, pair[1], out.hotoDone), pair[2]) >= 1
TimesCompleted(pair) ==
  IF pair[1] \in DOMAIN completedMerged(TickHoto, out.hotoDone)
  THEN Times(completedMerged(TickHoto, out.hotoDone)[pair[1]], pair[2]) ELSE 0
TimesParsedCompleted(pair) ==
  IF pair[1] \in DOMAIN TickHoto.completed
  THEN Times(TickHoto.completed[pair[1]], pair[2]) ELSE 0
StaysMoved ==
  fn \in TickFns =>
    \A p \in OutstandingPairs : Held(out.hotoDone, p) => Held(out'.hotoDone, p)

\* C34 as stated: every item of an outstanding group is either listed under
\* Outstanding (not in hotoDone[code]) or in the merged Completed list (in
\* hotoDone[code]), a moved item stays moved, and the merged Completed list
\* holds each moved item once.
C34_MovedItemOnce ==
  /\ [][StaysMoved]_vars
  /\ [](fn \in TickFns =>
          \A p \in OutstandingPairs :
            IF Held(out.hotoDone, p)
            THEN ~InOutstandingView(p) /\ TimesCompleted(p) = 1
            ELSE InOutstandingView(p))

\* C34: every item of an outstanding group is either listed under
\* Outstanding (not in hotoDone[code]) or in the merged Completed list (in
\* hotoDone[code]), a moved item stays moved, and the merged Completed list
\* holds a moved item once, or as often as the completed group of the
\* handover text lists it when that group lists it already.
C34_MovedItemNotAddedTwice ==
  /\ [][StaysMoved]_vars
  /\ [](fn \in TickFns =>
          \A p \in OutstandingPairs :
            IF Held(out.hotoDone, p)
            THEN /\ ~InOutstandingView(p)
                 /\ TimesCompleted(p) =
                      (IF TimesParsedCompleted(p) = 0 THEN 1 ELSE TimesParsedCompleted(p))
            ELSE InOutstandingView(p))

\* wash of S1 is moved while the completed group of S1 lists wash already
C34_Witness ==
  /\ fn = "moveTickedToCompleted" /\ out.answer = "yes"
  /\ gen.done = <<<<"S","1">>, <<"-"," ","w","a","s","h">>>>
  /\ Held(out.hotoDone, <<<<"S","1">>, <<"w","a","s","h">>>>)
  /\ completedMerged(TickHoto, out.hotoDone)[<<"S","1">>] = <<<<"w","a","s","h">>>>

\* the greatest of a set of ids in the order of strings
LaterId(a, b) ==
  \E k \in 1..10 :
    /\ \A j \in 1..(k - 1) : a[j] = b[j]
    /\ \E m, n \in 1..11 : m > n /\ <<"-","0","1","2","3","4","5","6","7","8","9">>[m] = a[k] /\ <<"-","0","1","2","3","4","5","6","7","8","9">>[n] = b[k]
GreatestId(ids) == CHOOSE a \in ids : \A b \in ids \ {a} : LaterId(a, b)

\* C35: with followLatest off the date the user picked stays selected: no
\* snapshot of the collection changes selectedDate, also when the picked
\* date has no document while other documents exist.
C35_PickedDateStays ==
  [][(fn \in FollowFns /\ fn' = "onSnapshot" /\ ~out.followLatest)
       => (out'.selectedDate = out.selectedDate)]_vars

\* C36: with followLatest on and a document in the collection, a snapshot of
\* the collection leaves the newest id selected; if another date was
\* selected, the listener of the newest document is opened after the one
\* that was open is closed; at most one listener of a document is open.
C36_FollowsNewest ==
  /\ [][(fn \in FollowFns /\ fn' = "onSnapshot" /\ out.followLatest /\ out.docs # {})
          => /\ out'.selectedDate = GreatestId(out.docs)
             /\ (out.selectedDate # GreatestId(out.docs)
                   => out'.listeners = <<GreatestId(out.docs)>>)
             /\ (out.selectedDate = GreatestId(out.docs)
                   => out'.listeners = out.listeners)]_vars
  /\ [](fn \in FollowFns => Len(out.listeners) <= 1)

\* a snapshot moved the selection from a picked date, whose listener was
\* open, to a newer document
C36_Witness ==
  /\ fn = "onSnapshot" /\ out.followLatest
  /\ out.docs = {<<"2","0","2","5","-","0","8","-","0","9">>, <<"2","0","2","5","-","0","8","-","1","0">>, <<"2","0","2","5","-","1","0","-","0","2">>}
  /\ out.selectedDate = <<"2","0","2","5","-","1","0","-","0","2">>
  /\ out.listeners = <<<<"2","0","2","5","-","1","0","-","0","2">>>>
  /\ gen.docs = {<<"2","0","2","5","-","0","8","-","0","9">>, <<"2","0","2","5","-","0","8","-","1","0">>}

\* the thresholds of the legend under the servicing table
MinorTypes == {"7D", "14D", "28D", "56A", "56B"}
ThresholdMeant ==
  [type \in MinorTypes \cup {"112D", "365D", "730D", "1430D"} |->
     CASE type \in MinorTypes -> 3
       [] type = "112D" -> 6
       [] type = "365D" -> 30
       [] type = "730D" -> 37
       [] type = "1430D" -> 72]

\* C37: dueSoonThreshold gives 3 days for the minor types 7D, 14D, 28D, 56A
\* and 56B, and for a major type 5% of its interval rounded up, 3 at least,
\* or the window of the type where it has one (30 for 365D).
C37_MinorTypesThreeDays ==
  fn = "dueSoonThreshold" /\ gen.type \in DOMAIN ThresholdMeant
    => out = ThresholdMeant[gen.type]

\* the unit codes the inputs of the generator name
CodeOfBlock(b) ==
  IF b[1] = "F" /\ b[2] = "2" THEN <<"F","2">>
  ELSE IF b[1] = "s" /\ b[2] = "1" THEN <<"S","1">>
  ELSE IF b[1] = "F" /\ b[2] = "3" THEN <<"F","3">>
  ELSE IF b[1] = "S" /\ b[2] = "2" THEN <<"S","2">>
  ELSE <<"S","3">>
DefectCodes == {CodeOfBlock(gen.blocks[k]) : k \in 1..Len(gen.blocks)}
ListedCodes ==
  IF gen.sbirds = <<"F","2",","," ","F","3",","," ","S","2",","," ","S","3">> THEN {<<"F","2">>, <<"F","3">>, <<"S","2">>, <<"S","3">>}
  ELSE IF gen.sbirds = <<"s","4"," ","S","4",",","S","1","0"," ","x","1">> THEN {<<"S","4">>}
  ELSE {}
ParsesBack(defects) ==
  LET parsed == out.parsed
  IN  /\ \A c \in defects :
           c \in DOMAIN parsed /\ parsed[c].tag \in {"rectification", "aog"}
      /\ \A c \in ListedCodes \ DefectCodes :
           c \in DOMAIN parsed /\ parsed[c].tag = "serviceable"
      /\ \A c \in DOMAIN parsed :
           parsed[c].title \in {c \o <<" ","-"," ","G","R">>, c \o <<" ","-"," ","S">>}
             => c \in DefectCodes \cup ListedCodes

\* C38: the text of handleGenerate parses back: parseReport gives every unit
\* code of the Telegram defects an entry tagged rectification or aog and
\* every listed serviceable code without a defect an entry tagged
\* serviceable, and the header lines give no other code an entry.
C38_GeneratedReportParsesBack ==
  fn = "parseReport" /\ gen.kind = "generate" => ParsesBack(DefectCodes)

\* the entry a header line of the pool starts
FreshEntry(line) ==
  IF line = <<"*","S","2"," ","-"," ","G","R">>
    THEN [code |-> <<"S","2">>, title |-> <<"S","2"," ","-"," ","G","R">>, input |-> <<>>, etr |-> <<>>, notes |-> <<>>]
  ELSE IF line = <<"s","2"," ","-"," ","S">>
    THEN [code |-> <<"S","2">>, title |-> <<"S","2"," ","-"," ","S">>, input |-> <<>>, etr |-> <<>>, notes |-> <<>>]
  ELSE [code |-> <<"F","3">>, title |-> <<"F","3"," ","-"," ","U","/","S">>, input |-> <<>>, etr |-> <<>>, notes |-> <<>>]

\* the unit code of the last header among the first k lines of the report
LastHeadCode(k) == IF k > Len(gen.body) + 1 THEN FreshEntry(gen.head2).code
                   ELSE FreshEntry(gen.head).code

ReportPassTaken ==
  fn = "parseReport.for" /\ fn' = "parseReport.for" /\ out'.k = out.k + 1

\* C39: in parseReport a header line puts a fresh entry in the place of any
\* entry its unit code has: the title is that of the later header and input,
\* etr and notes are empty again; a line that is no header changes at most
\* the entry of the last header, whose code and title stay, and no other.
C39_SecondHeaderReplaces ==
  [][ReportPassTaken =>
       IF gen.lines[out'.k] \in TwiceHeads
       THEN /\ FreshEntry(gen.lines[out'.k]).code \in DOMAIN out'.st.entries
            /\ out'.st.entries[FreshEntry(gen.lines[out'.k]).code]
                 = FreshEntry(gen.lines[out'.k])
            /\ \A c \in DOMAIN out.st.entries :
                 c # FreshEntry(gen.lines[out'.k]).code
                   => out'.st.entries[c] = out.st.entries[c]
       ELSE /\ DOMAIN out'.st.entries = DOMAIN out.st.entries
            /\ \A c \in DOMAIN out.st.entries :
                 IF c = LastHeadCode(out.k)
                 THEN /\ out'.st.entries[c].code = out.st.entries[c].code
                      /\ out'.st.entries[c].title = out.st.entries[c].title
                 ELSE out'.st.entries[c] = out.st.entries[c]]_vars

\* S2 had an input, an ETR and a note when its second header came
C39_Witness ==
  /\ fn = "parseReport" /\ gen.kind = "report"
  /\ gen.lines = <<<<"*","S","2"," ","-"," ","G","R">>, <<"I","n","p","u","t",":"," ","1"," ","A","u","g">>, <<">"," ","n","o","t","e">>, <<"s","2"," ","-"," ","S">>, <<"E","T","R",":"," ","5"," ","A","u","g">>>>
  /\ out.parsed[<<"S","2">>].title = <<"S","2"," ","-"," ","S">>
  /\ out.parsed[<<"S","2">>].input = <<>>
  /\ out.parsed[<<"S","2">>].notes = <<>>
  /\ out.parsed[<<"S","2">>].etr = <<"5"," ","A","u","g">>

====
